---------------------------- MODULE Spec2Model ----------------------------
(***************************************************************************)
(* A model of the WGUPS package delivery simulator (src/wgups.py,          *)
(* src/containers.py): the hub's batch selection and routing, the trucks'  *)
(* state machine and the simulator's tick loop.                            *)
(*                                                                         *)
(* Time is counted in clock increments (20 s) since midnight.  Distances   *)
(* are tenths of a mile: the table holds miles with one decimal, and the   *)
(* code uses them as int(10 * d), which is exact for such values.          *)
(*                                                                         *)
(* The HashTables the code iterates over (all_packages, the group of       *)
(* add_grouped_packages and the table of package_locations) are modelled   *)
(* bucket by bucket, with their length and load factor, so that they yield *)
(* their entries in the order of HashTableIterator.  The hub's other       *)
(* HashTables are only looked up by key: they are modelled by their key    *)
(* sets, or as functions from their keys.                                  *)
(*                                                                         *)
(* The HashTable, shortest_path, the Clock and fix_late_deliveries are     *)
(* also run on their own (TableSpec, DefaultSpec, RouterSpec, ClockSpec,   *)
(* RepairSpec).                                                            *)
(***************************************************************************)
EXTENDS Integers, Sequences, FiniteSets, TLC

VARIABLES
    clock,       \* Clock.current_datetime, in increments since midnight
    stop_at,     \* Simulator.stop_at, same unit
    capacity,    \* Truck.capacity (the same for the three trucks)
    distances,   \* the distance table shared by all locations (tenths)
    addr410,     \* the first location whose address is "410 S State St"
    packages,    \* hub.all_packages: package id -> Package
    hub,         \* the Hub's index structures
    trucks,      \* Simulator.trucks: truck id -> Truck
    pc,          \* position in Simulator.run
    raised,      \* the exception that ended the run, "" if none
    setup,       \* observation: the packages as they were constructed
    batches,     \* observation: truck id -> the batch next_batch returned
                 \*   to it in the last step (computed = FALSE if none)
    accepted,    \* observation: package id -> times add_to_batch took it
    routes,      \* observation: package id -> its place in the orders of
                 \*   the batch it was in (routed = FALSE if in none)
    legs,        \* observation: truck id -> the sum of the distances that
                 \*   set_destination has given it to drive
    events,      \* observation: what check_events did in the last step,
                 \*   and how often it has corrected the address so far
    hash_table,  \* a HashTable of containers.py used on its own
    reference,   \* observation: the finite map the calls on hash_table describe
    returned,    \* observation: the last call on hash_table and what it gave
    routed,      \* the last call of shortest_path and the order it gave
    projected,   \* the last call of Clock.time_after_increments
    repaired     \* the last call of Hub.fix_late_deliveries on its own

simvars == << clock, stop_at, capacity, distances, addr410, packages, hub,
              trucks, pc, raised, setup, batches, accepted, routes, legs,
              events >>

vars == << simvars, hash_table, reference, returned, routed, projected,
           repaired >>

-----------------------------------------------------------------------------
(* Program constants *)

IncrementSeconds == 20
TicksPerMinute == 60 \div IncrementSeconds
TicksPerDay == 24 * 60 * TicksPerMinute
TimeOf(hour, minute) == (hour * 60 + minute) * TicksPerMinute

StartTime == TimeOf(8, 0)
DelayedArrival == TimeOf(9, 5)
AddressCorrection == TimeOf(10, 20)
EndOfDay == TimeOf(17, 0)
CorrectedPackage == 9
Truck2 == 2
TruckCapacity == 16
ShortestInit == 99999
HubId == 0
NoLocation == 0 - 1
TruckIds == 1 .. 3

-----------------------------------------------------------------------------
(* Package statuses: the status strings of the code, as records *)

AtHub == [kind |-> "At Package Hub", truck |-> 0, at |-> 0, on_time |-> FALSE]
Delayed == [kind |-> "Delayed", truck |-> 0, at |-> 0, on_time |-> FALSE]
Undeliverable ==
    [kind |-> "Undeliverable", truck |-> 0, at |-> 0, on_time |-> FALSE]
OnTruck(t) == [kind |-> "On Truck", truck |-> t, at |-> 0, on_time |-> FALSE]
DeliveredAt(time, on_time) ==
    [kind |-> "Delivered at", truck |-> 0, at |-> time, on_time |-> on_time]

(* Deadlines: "EOD" or "H:MM AM/PM" *)
EOD == [text |-> "EOD", hour |-> 0, minute |-> 0, half |-> "--"]
Deadline(hour, minute, half) ==
    [text |-> "H:MM", hour |-> hour, minute |-> minute, half |-> half]

\* Package.__init__: the time of day a deadline string stands for
DeadlineTime(deadline) ==
    IF deadline = EOD THEN EndOfDay
    ELSE LET h1 == IF deadline.hour # 12 /\ deadline.half = "PM"
                   THEN deadline.hour + 12 ELSE deadline.hour
             h2 == IF h1 = 12 /\ deadline.half = "AM" THEN 0 ELSE h1
         IN  TimeOf(h2, deadline.minute)

-----------------------------------------------------------------------------
(* Sequences *)

Min(S) == CHOOSE x \in S : \A y \in S : x <= y
Max(S) == CHOOSE x \in S : \A y \in S : x >= y

Range(s) == { s[i] : i \in 1 .. Len(s) }

\* the orders in which the elements of a set can be listed
Orders(S) ==
    { o \in [1 .. Cardinality(S) -> S] : Range(o) = S }

RECURSIVE Ascending(_)
\* the integers of a set in ascending order
Ascending(S) ==
    IF S = {} THEN << >> ELSE << Min(S) >> \o Ascending(S \ {Min(S)})

\* list.sort() of distinct values after an append
SortedInsert(s, x) == Ascending(Range(s) \cup {x})

-----------------------------------------------------------------------------
(* Clock *)

\* Clock.now, for the clock value c
Now(c) == c % TicksPerDay

\* Clock.time_after_increments that adds one increment whatever it is given
TimeAfterOneIncrement(c, increments) == (c + 1) % TicksPerDay

\* Clock.time_after_increments
TimeAfterIncrements(c, increments) == (c + increments) % TicksPerDay

-----------------------------------------------------------------------------
(* containers.py: HashTable, bucket by bucket *)

\* HashTable.__init__; the load factor is the fraction num / den
HashTable(length, load_factor) ==
    [array |-> [i \in 1 .. length |-> << >>],
     load_factor |-> load_factor,
     len |-> 0]

\* HashTable.hash, as an index from 1: hash(key) is the key itself for the
\* small non-negative integers used as keys
Hash(ht, key) == (key % Len(ht.array)) + 1

\* the position of the first pair with the key in a bucket, 0 if none
IndexIn(bucket, key) ==
    IF \E i \in 1 .. Len(bucket) : bucket[i][1] = key
    THEN Min({ i \in 1 .. Len(bucket) : bucket[i][1] = key })
    ELSE 0

\* HashTable.__contains__
Contains(ht, key) == IndexIn(ht.array[Hash(ht, key)], key) # 0

\* HashTable.is_full without the load factor
IsFullAtLength(ht) == ht.len > Len(ht.array)

\* HashTable.is_full: len(self) > len(self.array) * self.load_factor
IsFull(ht) ==
    ht.len * ht.load_factor.den > Len(ht.array) * ht.load_factor.num

RECURSIVE KeyValuePairs(_, _)
\* HashTableIterator: the pairs from bucket outer on, in bucket order
KeyValuePairs(array, outer) ==
    IF outer > Len(array) THEN << >>
    ELSE array[outer] \o KeyValuePairs(array, outer + 1)

\* HashTable.__iter__: the pairs the iterator of the table yields
Pairs(ht) == KeyValuePairs(ht.array, 1)

\* HashTable.add up to the test of is_full: the value replaces that of the
\* key, or the pair goes to the end of its bucket and is counted
Store(ht, key, value) ==
    LET index == Hash(ht, key)
        i == IndexIn(ht.array[index], key)
    IN  IF i # 0
        THEN [ht EXCEPT !.array[index][i] = << key, value >>]
        ELSE [ht EXCEPT !.array[index] = Append(@, << key, value >>),
                        !.len = @ + 1]

RECURSIVE Add(_, _, _), Double(_), AddEach(_, _)

\* HashTable.add that appends without looking for the key
AddWithoutLookup(ht, key, value) ==
    LET index == Hash(ht, key)
        stored == [ht EXCEPT !.array[index] = Append(@, << key, value >>),
                             !.len = @ + 1]
    IN  IF IsFull(stored) THEN Double(stored) ELSE stored

\* HashTable.add
Add(ht, key, value) ==
    IF IsFull(Store(ht, key, value))
    THEN Double(Store(ht, key, value))
    ELSE Store(ht, key, value)

\* the loop of HashTable.double: new_ht.add(kvp[0], kvp[1]) for each pair
\* (the test of len has TLC evaluate each add before it goes on to the next)
AddEach(new_ht, kvps) ==
    IF kvps = << >> THEN new_ht
    ELSE LET added == Add(new_ht, Head(kvps)[1], Head(kvps)[2])
         IN  IF added.len = 0 THEN added ELSE AddEach(added, Tail(kvps))

\* HashTable.double: the array becomes that of a new table of twice the
\* length to which every pair was added; self.len is not assigned
Double(ht) ==
    [ht EXCEPT !.array =
        AddEach(HashTable(Len(ht.array) * 2, ht.load_factor),
                Pairs(ht)).array]

\* a bucket without its i-th pair
Without(bucket, i) ==
    [j \in 1 .. Len(bucket) - 1 |-> IF j < i THEN bucket[j] ELSE bucket[j + 1]]

\* HashTable.remove
Remove(ht, key) ==
    LET index == Hash(ht, key)
        i == IndexIn(ht.array[index], key)
    IN  IF i # 0
        THEN [ht EXCEPT !.array[index] = Without(@, i), !.len = @ - 1]
        ELSE ht

\* the n-th members of a list of pairs
Each(kvps, n) == [i \in 1 .. Len(kvps) |-> kvps[i][n]]

\* HashKeyIterator: the keys in the order of the table's iterator
Keys(ht) == Each(Pairs(ht), 1)

\* HashValueIterator: the values in the order of the table's iterator
Values(ht) == Each(Pairs(ht), 2)

\* HashTable(): length=16, load_factor=.75
NewHashTable == HashTable(16, [num |-> 3, den |-> 4])

\* what a call gives back: a value, None, or an exception
None == "None"
Returns(value) == [raised |-> "", value |-> value]
Raises(exception) == [raised |-> exception, value |-> None]

\* HashTable.get that gives None for a key that is not there
GetOrNone(ht, key) ==
    LET index == Hash(ht, key)
        i == IndexIn(ht.array[index], key)
    IN  IF i # 0 THEN Returns(ht.array[index][i][2]) ELSE Returns(None)

\* HashTable.get
Get(ht, key) ==
    LET index == Hash(ht, key)
        i == IndexIn(ht.array[index], key)
    IN  IF i # 0 THEN Returns(ht.array[index][i][2]) ELSE Raises("KeyError")

\* HashTable.pop: the table afterwards and the value given back
Pop(ht, key) ==
    LET index == Hash(ht, key)
        i == IndexIn(ht.array[index], key)
    IN  IF i # 0
        THEN [table |-> [ht EXCEPT !.array[index] = Without(@, i),
                                   !.len = @ - 1],
              returned |-> Returns(ht.array[index][i][2])]
        ELSE [table |-> ht, returned |-> Returns(None)]

\* nothing has been called
NoCall == [op |-> "", key |-> 0, known |-> FALSE, result |-> Returns(None)]

-----------------------------------------------------------------------------
(* Locations *)

\* Location.distance_to, in tenths: int(10 * distance)
DistanceTo(a, b) ==
    LET row == IF a >= b THEN a ELSE b
        col == IF a >= b THEN b ELSE a
    IN  distances[row + 1][col + 1]

\* the loop of package_locations: the HashTable() to which the locations
\* are added under their ids, in the given order
LocationTable(added) ==
    AddEach(NewHashTable, [i \in 1 .. Len(added) |-> << added[i], added[i] >>])

\* package_locations: the table of the delivery locations of a list of
\* packages
PackageLocations(pk, pkgs) ==
    LocationTable([i \in 1 .. Len(pkgs) |-> pk[pkgs[i]].delivery_location])

RECURSIVE NearestFrom(_, _, _, _)
\* the inner loop of shortest_path with "<=" for "<": the last of the
\* nearest locations is chosen
NearestFromLast(order, last_location, shortest_distance, next_location) ==
    IF order = << >> THEN next_location
    ELSE IF DistanceTo(last_location, Head(order)) <= shortest_distance
         THEN NearestFrom(Tail(order), last_location,
                          DistanceTo(last_location, Head(order)), Head(order))
         ELSE NearestFrom(Tail(order), last_location, shortest_distance,
                          next_location)

\* the inner loop of shortest_path over the locations in iteration order:
\* a location replaces the choice only when it is strictly nearer
NearestFrom(order, last_location, shortest_distance, next_location) ==
    IF order = << >> THEN next_location
    ELSE IF DistanceTo(last_location, Head(order)) < shortest_distance
         THEN NearestFrom(Tail(order), last_location,
                          DistanceTo(last_location, Head(order)), Head(order))
         ELSE NearestFrom(Tail(order), last_location, shortest_distance,
                          next_location)

RECURSIVE ShortestPath(_, _)
\* shortest_path: nearest-neighbour order of a HashTable of locations,
\* which are removed from the table one by one
ShortestPath(locations, starting_location) ==
    IF locations.len = 0 THEN << >>
    ELSE LET next_location ==
                 NearestFrom(Values(locations), starting_location,
                             ShortestInit, NoLocation)
         IN  << next_location >>
               \o ShortestPath(Remove(locations, next_location),
                               next_location)

\* the first package of a list that goes to one location
FirstAtLocation(pk, pkgs, location) ==
    LET there == SelectSeq(pkgs, LAMBDA p : pk[p].delivery_location = location)
    IN  IF there = << >> THEN << >> ELSE << Head(there) >>

\* the packages of a list that go to one location, in list order
AtLocation(pk, pkgs, location) ==
    SelectSeq(pkgs, LAMBDA p : pk[p].delivery_location = location)

RECURSIVE AlongPath(_, _, _)
\* the loops of sort_by_location: for each location of the path in turn,
\* the packages that go there
AlongPath(pk, path, pkgs) ==
    IF path = << >> THEN << >>
    ELSE AtLocation(pk, pkgs, Head(path)) \o AlongPath(pk, Tail(path), pkgs)

\* sort_by_location
SortByLocation(pk, pkgs, starting_location) ==
    AlongPath(pk, ShortestPath(PackageLocations(pk, pkgs), starting_location),
              pkgs)

-----------------------------------------------------------------------------
(***************************************************************************)
(* The mutable objects of a run are handled as one record w, the world:    *)
(*   w.clock, w.packages, w.hub, w.trucks, w.raised                        *)
(* and the observations w.batches, w.accepted, w.routes, w.legs, w.events, *)
(* so that the calls of one handler compose in the order the code makes    *)
(* them.  Once w.raised is set the rest of the handler is skipped, as      *)
(* after a Python exception nobody catches.                                *)
(***************************************************************************)

\* is_eligible_package without the test of the truck
IsEligibleOnAnyTruck(w, package_id, truck_id) ==
    /\ package_id \in w.hub.remaining_packages
    /\ package_id \notin w.hub.undeliverable_packages
    /\ package_id \notin w.hub.delayed_packages

\* is_eligible_package without the test of the delayed packages
IsEligibleWhileDelayed(w, package_id, truck_id) ==
    /\ package_id \in w.hub.remaining_packages
    /\ package_id \notin w.hub.undeliverable_packages
    /\ (~ w.packages[package_id].truck2_only \/ truck_id = Truck2)

\* is_eligible_package without the test of the undeliverable packages
IsEligibleWhileUndeliverable(w, package_id, truck_id) ==
    /\ package_id \in w.hub.remaining_packages
    /\ package_id \notin w.hub.delayed_packages
    /\ (~ w.packages[package_id].truck2_only \/ truck_id = Truck2)

\* Hub.is_eligible_package
IsEligiblePackage(w, package_id, truck_id) ==
    /\ package_id \in w.hub.remaining_packages
    /\ package_id \notin w.hub.undeliverable_packages
    /\ package_id \notin w.hub.delayed_packages
    /\ (~ w.packages[package_id].truck2_only \/ truck_id = Truck2)

\* what a call of group_packages or a part of its loop is known by:
\* is_eligible and hash_group as the code has them after it, and as
\* observations the packages added to hash_group, in order, and the number
\* of calls of group_packages made
Grouped(is_eligible, hash_group, visits, calls) ==
    [is_eligible |-> is_eligible, hash_group |-> hash_group,
     visits |-> visits, calls |-> calls]

\* the call of group_packages that added package_id and then made the
\* calls of the loop r
AddedThen(package_id, r) ==
    Grouped(r.is_eligible, r.hash_group, << package_id >> \o r.visits,
            1 + r.calls)

\* the call r of group_packages followed by the rest of the loop
Then(r, rest) ==
    Grouped(rest.is_eligible, rest.hash_group, r.visits \o rest.visits,
            r.calls + rest.calls)

RECURSIVE GroupPackages(_, _, _, _), GroupOthers(_, _, _, _)
\* Hub.group_packages: [is_eligible, hash_group] after the call
GroupPackages(w, package_id, hash_group, truck_id) ==
    LET is_eligible == IsEligiblePackage(w, package_id, truck_id)
    IN  IF is_eligible /\ ~ Contains(hash_group, package_id)
        THEN AddedThen(package_id,
                       GroupOthers(w, w.hub.deliver_with[package_id],
                                   Add(hash_group, package_id, package_id),
                                   truck_id))
        ELSE Grouped(is_eligible, hash_group, << >>, 1)

\* the loop of group_packages with the result of the recursive call dropped
GroupOthersUnchecked(w, others, hash_group, truck_id) ==
    IF others = << >>
    THEN Grouped(TRUE, hash_group, << >>, 0)
    ELSE GroupOthers(w, Tail(others),
                     GroupPackages(w, Head(others), hash_group,
                                   truck_id).hash_group,
                     truck_id)

\* the loop of group_packages with every call given the hash_group the loop
\* started with
GroupOthersFromStart(w, others, hash_group, truck_id) ==
    IF others = << >>
    THEN Grouped(TRUE, hash_group, << >>, 0)
    ELSE LET r == GroupPackages(w, Head(others), hash_group, truck_id)
         IN  IF r.is_eligible
             THEN LET rest == GroupOthers(w, Tail(others), hash_group,
                                          truck_id)
                  IN  Grouped(rest.is_eligible,
                              AddEach(r.hash_group, Pairs(rest.hash_group)),
                              r.visits \o rest.visits, r.calls + rest.calls)
             ELSE r

\* the rest of the loop of group_packages after the call r
GroupRest(w, others, r, truck_id) ==
    IF r.is_eligible
    THEN Then(r, GroupOthers(w, others, r.hash_group, truck_id))
    ELSE r

\* the loop of group_packages over deliver_with[package_id]; "and" stops
\* calling group_packages after the first ineligible package
GroupOthers(w, others, hash_group, truck_id) ==
    IF others = << >>
    THEN Grouped(TRUE, hash_group, << >>, 0)
    ELSE GroupRest(w, Tail(others),
                   GroupPackages(w, Head(others), hash_group, truck_id),
                   truck_id)

\* add_to_batch without the removal from priority_packages
AddToBatchKeepsPriority(s, package_id, truck_id) ==
    IF Len(s.batch) < capacity /\ IsEligiblePackage(s.w, package_id, truck_id)
    THEN [w |-> [s.w EXCEPT
                   !.hub.remaining_packages = @ \ {package_id},
                   !.accepted[package_id] = @ + 1],
          batch |-> Append(s.batch, package_id)]
    ELSE s

\* Hub.add_to_batch; s is [w, batch]
AddToBatch(s, package_id, truck_id) ==
    IF Len(s.batch) < capacity /\ IsEligiblePackage(s.w, package_id, truck_id)
    THEN [w |-> [s.w EXCEPT
                   !.hub.remaining_packages = @ \ {package_id},
                   !.hub.priority_packages = @ \ {package_id},
                   !.accepted[package_id] = @ + 1],
          batch |-> Append(s.batch, package_id)]
    ELSE s

RECURSIVE AddAllToBatch(_, _, _)
\* the loop of add_grouped_packages over the group (the test of the batch has
\* TLC evaluate each add_to_batch before it goes on to the next)
AddAllToBatch(s, group, truck_id) ==
    IF group = << >> THEN s
    ELSE LET added == AddToBatch(s, Head(group), truck_id)
         IN  IF Len(added.batch) = 0 THEN added
             ELSE AddAllToBatch(added, Tail(group), truck_id)

\* observation: add_packages_by_location is about to call
\* add_grouped_packages for first_package; if the group will be taken, it
\* is noted with the packages the batch holds before it
NotePull(s, first_package, truck_id) ==
    LET g == GroupPackages(s.w, first_package, NewHashTable, truck_id)
    IN  IF g.is_eligible /\ g.hash_group.len + Len(s.batch) <= capacity
        THEN [s EXCEPT !.w.batches[truck_id].pulled =
                  @ \cup { [first_package |-> first_package,
                            group |-> Range(Keys(g.hash_group)),
                            batch |-> Range(s.batch)] }]
        ELSE s

\* observation: a call of add_grouped_packages for first_package is noted
\* with what its call of group_packages did
NoteGroup(s, first_package, truck_id) ==
    LET g == GroupPackages(s.w, first_package, NewHashTable, truck_id)
    IN  [s EXCEPT !.w.batches[truck_id].grouped =
                      @ \cup { [first_package |-> first_package,
                                visits |-> g.visits, calls |-> g.calls] },
                  !.w.batches[truck_id].group_calls = @ + 1]

RECURSIVE AddGroupedPackages(_, _, _), AddPackagesByLocations(_, _, _),
          AddPackagesByLocation(_, _, _)
\* add_grouped_packages that takes every eligible group, whatever room the
\* batch has left
AddGroupedPackagesAnyLength(s, first_package, truck_id) ==
    IF s.w.raised # "" THEN s
    ELSE
    LET g == GroupPackages(s.w, first_package, NewHashTable, truck_id)
        group == Values(g.hash_group)
        noted == NoteGroup(s, first_package, truck_id)
    IN  IF g.is_eligible
        THEN AddPackagesByLocations(
                 [w |-> [noted.w EXCEPT
                           !.hub.remaining_packages = @ \ Range(group),
                           !.hub.priority_packages = @ \ Range(group),
                           !.accepted = [p \in DOMAIN @ |->
                                            IF p \in Range(group)
                                            THEN @[p] + 1 ELSE @[p]]],
                  batch |-> noted.batch \o group],
                 Values(PackageLocations(s.w.packages, group)), truck_id)
        ELSE noted

\* add_grouped_packages that takes a group only if room is left after it
AddGroupedPackagesBelowCapacity(s, first_package, truck_id) ==
    IF s.w.raised # "" THEN s
    ELSE
    LET g == GroupPackages(s.w, first_package, NewHashTable, truck_id)
        group == Values(g.hash_group)
    IN  IF g.is_eligible /\ g.hash_group.len + Len(s.batch) < capacity
        THEN AddPackagesByLocations(
                 AddAllToBatch(s, group, truck_id),
                 Values(PackageLocations(s.w.packages, group)), truck_id)
        ELSE s

\* Hub.add_grouped_packages
AddGroupedPackages(s, first_package, truck_id) ==
    IF s.w.raised # "" THEN s
    ELSE
    LET g == GroupPackages(s.w, first_package, NewHashTable, truck_id)
        group == Values(g.hash_group)
    IN  IF g.is_eligible /\ g.hash_group.len + Len(s.batch) <= capacity
        THEN AddPackagesByLocations(
                 AddAllToBatch(NoteGroup(s, first_package, truck_id), group,
                               truck_id),
                 Values(PackageLocations(s.w.packages, group)), truck_id)
        ELSE NoteGroup(s, first_package, truck_id)

\* Hub.add_packages_by_locations
AddPackagesByLocations(s, locations, truck_id) ==
    IF locations = << >> \/ s.w.raised # "" THEN s
    ELSE IF Len(s.batch) = capacity THEN s
    ELSE IF Head(locations) \notin DOMAIN s.w.hub.packages_by_location
         THEN [s EXCEPT !.w.raised = "KeyError"]
         ELSE AddPackagesByLocations(
                  AddPackagesByLocation(
                      s, s.w.hub.packages_by_location[Head(locations)],
                      truck_id),
                  Tail(locations), truck_id)

\* Hub.add_packages_by_location, on the list packages_by_location[location]
AddPackagesByLocation(s, pkgs, truck_id) ==
    IF pkgs = << >> \/ s.w.raised # "" THEN s
    ELSE IF Len(s.batch) = capacity THEN s
    ELSE AddPackagesByLocation(
             AddGroupedPackages(NotePull(s, Head(pkgs), truck_id),
                                Head(pkgs), truck_id),
             Tail(pkgs), truck_id)

RECURSIVE HighestPriorityFrom(_, _, _, _)
\* the loop of highest_priority_packages with every deadline group sorted
\* from the location the loop was started with
HighestPriorityFromStart(w, deadlines, last_location, truck_id) ==
    IF deadlines = << >> THEN << >>
    ELSE LET deadline_packages ==
                 SelectSeq(w.hub.packages_by_deadline[Head(deadlines)],
                           LAMBDA p : IsEligiblePackage(w, p, truck_id))
         IN  SortByLocation(w.packages, deadline_packages, last_location)
               \o HighestPriorityFrom(w, Tail(deadlines), last_location,
                                      truck_id)

\* the loop of highest_priority_packages over self.deadlines
HighestPriorityFrom(w, deadlines, last_location, truck_id) ==
    IF deadlines = << >> THEN << >>
    ELSE LET deadline_packages ==
                 SelectSeq(w.hub.packages_by_deadline[Head(deadlines)],
                           LAMBDA p : IsEligiblePackage(w, p, truck_id))
             sorted == SortByLocation(w.packages, deadline_packages,
                                      last_location)
             next_last == IF sorted = << >> THEN last_location
                          ELSE w.packages[sorted[Len(sorted)]].delivery_location
         IN  sorted \o HighestPriorityFrom(w, Tail(deadlines), next_last,
                                           truck_id)

\* Hub.highest_priority_packages
HighestPriorityPackages(w, truck_id) ==
    HighestPriorityFrom(w, w.hub.deadlines, HubId, truck_id)

RECURSIVE LateFrom(_, _, _, _)
\* the loop of has_late_delivery
LateFrom(w, pkgs, total_distance, last_location) ==
    IF pkgs = << >> THEN FALSE
    ELSE LET location == w.packages[Head(pkgs)].delivery_location
             total == total_distance + DistanceTo(location, last_location)
         IN  IF TimeAfterIncrements(w.clock, total)
                    > w.packages[Head(pkgs)].deadline_time
             THEN TRUE
             ELSE LateFrom(w, Tail(pkgs), total, location)

\* Hub.has_late_delivery
HasLateDelivery(w, pkgs) == LateFrom(w, pkgs, 0, HubId)

\* the first index of a package with a deadline other than "EOD" in place
\* of the last
FirstPriorityIndex(w, pkgs) ==
    LET strict == { i \in 1 .. Len(pkgs) : w.packages[pkgs[i]].deadline # EOD }
    IN  IF strict = {} THEN 0 ELSE Min(strict) - 1

\* the last index of a package with a deadline other than "EOD", 0-based,
\* 0 if there is none
LastPriorityIndex(w, pkgs) ==
    LET strict == { i \in 1 .. Len(pkgs) : w.packages[pkgs[i]].deadline # EOD }
    IN  IF strict = {} THEN 0 ELSE Max(strict) - 1

\* fix_late_deliveries that returns the order of sort_by_location as it is
FixLateDeliveriesUnrepaired(w, pkgs) == SortByLocation(w.packages, pkgs, HubId)

\* Hub.fix_late_deliveries
FixLateDeliveries(w, pkgs) ==
    LET on_time_packages == SortByLocation(w.packages, pkgs, HubId)
    IN  IF HasLateDelivery(w, on_time_packages)
        THEN LET last_priority_index == LastPriorityIndex(w, pkgs)
                 kept == SubSeq(pkgs, 1, last_priority_index + 1)
                 packages_to_reorder ==
                     SubSeq(pkgs, last_priority_index + 2, Len(pkgs))
             IN  kept \o SortByLocation(
                      w.packages, packages_to_reorder,
                      w.packages[pkgs[last_priority_index + 1]].delivery_location)
        ELSE on_time_packages

RECURSIVE SelectBatch(_, _, _)
\* the loop of next_batch over highest_priority_packages
SelectBatch(s, candidates, truck_id) ==
    IF candidates = << >> \/ s.w.raised # "" THEN s
    ELSE LET s1 == AddGroupedPackages(s, Head(candidates), truck_id)
         IN  IF Len(s1.batch) = capacity THEN s1
             ELSE SelectBatch(s1, Tail(candidates), truck_id)

\* Hub.next_batch: [w, batch, selected, candidates], w the world after the
\* call, batch the list returned, selected the list given to
\* fix_late_deliveries and candidates the list highest_priority_packages
\* returned
NextBatch(w, truck_id) ==
    LET s == SelectBatch([w |-> w, batch |-> << >>],
                         HighestPriorityPackages(w, truck_id), truck_id)
    IN  [w |-> s.w,
         batch |-> IF s.w.raised # "" THEN s.batch
                   ELSE FixLateDeliveries(s.w, s.batch),
         selected |-> s.batch,
         candidates |-> HighestPriorityPackages(w, truck_id)]

-----------------------------------------------------------------------------
(* Trucks *)

\* Truck.set_destination
SetDestination(w, truck_id) ==
    LET truck == w.trucks[truck_id]
        destination == IF Len(truck.packages) = 0 THEN HubId
                       ELSE w.packages[truck.packages[1]].delivery_location
    IN  [w EXCEPT !.trucks[truck_id].destination = destination,
                  !.trucks[truck_id].mile_tenths_to_destination =
                      DistanceTo(truck.location, destination),
                  !.legs[truck_id] =
                      @ + DistanceTo(truck.location, destination)]

\* Truck.add_package
AddPackage(w, truck_id, package_id) ==
    LET w1 == IF Len(w.trucks[truck_id].packages) < capacity
              THEN [w EXCEPT
                      !.trucks[truck_id].packages = Append(@, package_id),
                      !.packages[package_id].status = OnTruck(truck_id)]
              ELSE w
    IN  IF Len(w1.trucks[truck_id].packages) = 1
        THEN [SetDestination(w1, truck_id) EXCEPT
                !.trucks[truck_id].waiting = FALSE]
        ELSE w1

RECURSIVE AddPackages(_, _, _)
\* the loop of Hub.arrive over the batch
AddPackages(w, truck_id, batch) ==
    IF batch = << >> THEN w
    ELSE AddPackages(AddPackage(w, truck_id, Head(batch)), truck_id,
                     Tail(batch))

\* Truck.wait_at_hub
WaitAtHub(w, truck_id) == [w EXCEPT !.trucks[truck_id].waiting = TRUE]

\* the place of package_id in a list that holds it once
PositionIn(pkgs, package_id) ==
    CHOOSE i \in 1 .. Len(pkgs) : pkgs[i] = package_id

RECURSIVE DistanceAlong(_, _, _)
\* total_distance of has_late_delivery when it reaches the i-th package
DistanceAlong(w, pkgs, i) ==
    IF i = 0 THEN 0
    ELSE DistanceAlong(w, pkgs, i - 1)
         + DistanceTo(w.packages[pkgs[i]].delivery_location,
                      IF i = 1 THEN HubId
                      ELSE w.packages[pkgs[i - 1]].delivery_location)

\* expected_delivery_time of has_late_delivery for the i-th package
ExpectedDeliveryTime(w, pkgs, i) ==
    TimeAfterIncrements(w.clock, DistanceAlong(w, pkgs, i))

\* what is recorded in routes of a package that was in no batch yet
NoRoute == [routed |-> FALSE, accepted_pos |-> 0, greedy_pos |-> 0,
            pos |-> 0, greedy_due |-> 0, due |-> 0]

\* what is recorded in routes of a package of a batch: its place in the
\* order of acceptance, in the order of sort_by_location from the hub and in
\* the order next_batch returns, and when the last two would deliver it
RouteOf(w, package_id, selected, items) ==
    LET greedy == SortByLocation(w.packages, selected, HubId)
    IN  [routed |-> TRUE,
         accepted_pos |-> PositionIn(selected, package_id),
         greedy_pos |-> PositionIn(greedy, package_id),
         pos |-> PositionIn(items, package_id),
         greedy_due |-> ExpectedDeliveryTime(
                            w, greedy, PositionIn(greedy, package_id)),
         due |-> ExpectedDeliveryTime(
                     w, items, PositionIn(items, package_id))]

\* what a call of next_batch is recorded as in batches
NoBatch == [computed |-> FALSE, eligible |-> {}, selected |-> << >>,
            items |-> << >>, pulled |-> {}, candidates |-> << >>,
            grouped |-> {}, group_calls |-> 0]

\* the packages of a batch and what is observed of it, once next_batch has
\* returned s = [w, batch, selected]
RecordBatch(s, truck_id, eligible) ==
    [s.w EXCEPT
       !.batches[truck_id] =
           [computed |-> TRUE, eligible |-> eligible,
            selected |-> s.selected, items |-> s.batch,
            pulled |-> s.w.batches[truck_id].pulled,
            candidates |-> s.candidates,
            grouped |-> s.w.batches[truck_id].grouped,
            group_calls |-> s.w.batches[truck_id].group_calls],
       !.routes = [p \in DOMAIN s.w.packages |->
                     IF p \in Range(s.batch)
                     THEN RouteOf(s.w, p, s.selected, s.batch)
                     ELSE @[p]]]

\* Hub.arrive after the call of next_batch, which returned batch
LoadBatch(w, truck_id, batch) ==
    AddPackages(IF Len(batch) = 0 THEN WaitAtHub(w, truck_id) ELSE w,
                truck_id, batch)

\* Hub.arrive after the call of next_batch, which returned s
ArriveWith(s, truck_id, eligible) ==
    IF s.w.raised # "" THEN s.w
    ELSE LoadBatch(RecordBatch(s, truck_id, eligible), truck_id, s.batch)

\* Hub.arrive
HubArrive(w, truck_id) ==
    ArriveWith(NextBatch(w, truck_id), truck_id,
               { p \in DOMAIN w.packages : IsEligiblePackage(w, p, truck_id) })

RECURSIVE DeliverFrom(_, _, _, _)
\* the loop of Truck.deliver with "now < deadline" for "now <= deadline"
DeliverFromBeforeDeadline(w, truck_id, pkgs, remaining_packages) ==
    IF pkgs = << >>
    THEN [w EXCEPT !.trucks[truck_id].packages = remaining_packages]
    ELSE LET p == Head(pkgs)
         IN  IF w.packages[p].delivery_location = w.trucks[truck_id].location
             THEN DeliverFrom(
                      [w EXCEPT !.packages[p].status =
                         DeliveredAt(Now(w.clock),
                                     Now(w.clock) < w.packages[p].deadline_time)],
                      truck_id, Tail(pkgs), remaining_packages)
             ELSE DeliverFrom(w, truck_id, Tail(pkgs),
                              Append(remaining_packages, p))

\* the loop of Truck.deliver: the world with the statuses stamped, and the
\* packages that stay on the truck
DeliverFrom(w, truck_id, pkgs, remaining_packages) ==
    IF pkgs = << >>
    THEN [w EXCEPT !.trucks[truck_id].packages = remaining_packages]
    ELSE LET p == Head(pkgs)
         IN  IF w.packages[p].delivery_location = w.trucks[truck_id].location
             THEN DeliverFrom(
                      [w EXCEPT !.packages[p].status =
                         DeliveredAt(Now(w.clock),
                                     Now(w.clock) <= w.packages[p].deadline_time)],
                      truck_id, Tail(pkgs), remaining_packages)
             ELSE DeliverFrom(w, truck_id, Tail(pkgs),
                              Append(remaining_packages, p))

\* Truck.deliver
Deliver(w, truck_id) ==
    SetDestination(
        DeliverFrom(w, truck_id, w.trucks[truck_id].packages, << >>), truck_id)

\* Location.arrive and Hub.arrive, by the class of the destination
Arrive(w, location, truck_id) ==
    IF location = HubId THEN HubArrive(w, truck_id) ELSE Deliver(w, truck_id)

\* Truck.drive that does not count the tick on which the truck arrives
DriveUncountedArrival(w, truck_id) ==
    LET truck == w.trucks[truck_id]
    IN  IF w.raised # "" THEN w
        ELSE IF truck.waiting THEN HubArrive(w, truck_id)
        ELSE IF truck.mile_tenths_to_destination > 1
        THEN [w EXCEPT
                !.trucks[truck_id].mile_tenths_driven = @ + 1,
                !.trucks[truck_id].mile_tenths_to_destination = @ - 1]
        ELSE IF truck.mile_tenths_to_destination = 1
        THEN Arrive([w EXCEPT
                       !.trucks[truck_id].mile_tenths_to_destination = 0,
                       !.trucks[truck_id].location = truck.destination],
                    truck.destination, truck_id)
        ELSE w

\* Truck.drive
Drive(w, truck_id) ==
    LET truck == w.trucks[truck_id]
    IN  IF w.raised # "" THEN w
        ELSE IF truck.waiting THEN HubArrive(w, truck_id)
        ELSE IF truck.mile_tenths_to_destination > 0
        THEN LET w1 == [w EXCEPT
                          !.trucks[truck_id].mile_tenths_driven = @ + 1,
                          !.trucks[truck_id].mile_tenths_to_destination = @ - 1]
             IN  IF w1.trucks[truck_id].mile_tenths_to_destination = 0
                 THEN Arrive([w1 EXCEPT !.trucks[truck_id].location =
                                            truck.destination],
                             truck.destination, truck_id)
                 ELSE w1
        ELSE w

\* Truck.miles_driven, in tenths of a mile
MileTenthsDriven(truck_id) == trucks[truck_id].mile_tenths_driven

RECURSIVE SumMileTenths(_)
\* the loop of print_status over the trucks
SumMileTenths(truck_ids) ==
    IF truck_ids = << >> THEN 0
    ELSE MileTenthsDriven(Head(truck_ids)) + SumMileTenths(Tail(truck_ids))

\* print_status: "Total miles driven", in tenths of a mile
TotalMileTenths == SumMileTenths(Ascending(TruckIds))

-----------------------------------------------------------------------------
(* Simulator *)

\* Simulator.check_events, 9:05: the delayed packages arrive
DelayedPackagesArrive(w) ==
    IF Now(w.clock) = DelayedArrival
    THEN [w EXCEPT
            !.packages = [p \in DOMAIN w.packages |->
                            IF p \in w.hub.delayed_packages
                            THEN [w.packages[p] EXCEPT !.status = AtHub]
                            ELSE w.packages[p]],
            !.hub.delayed_packages = {},
            !.events.arrived = w.hub.delayed_packages]
    ELSE w

\* the address correction with "now >= 10:20" for "now == 10:20"
CorrectAddressFromThenOn(w) ==
    IF Now(w.clock) >= AddressCorrection
    THEN IF CorrectedPackage \notin DOMAIN w.packages
         THEN [w EXCEPT !.raised = "KeyError"]
         ELSE IF addr410 = NoLocation THEN w
         ELSE [w EXCEPT
                 !.packages[CorrectedPackage].delivery_location = addr410,
                 !.packages[CorrectedPackage].status = AtHub,
                 !.hub.undeliverable_packages = @ \ {CorrectedPackage},
                 !.events.corrected = {CorrectedPackage},
                 !.events.corrections = @ + 1]
    ELSE w

\* Simulator.check_events, 10:20: the address of package 9 is corrected
CorrectAddress(w) ==
    IF Now(w.clock) = AddressCorrection
    THEN IF CorrectedPackage \notin DOMAIN w.packages
         THEN [w EXCEPT !.raised = "KeyError"]
         ELSE IF addr410 = NoLocation THEN w
         ELSE [w EXCEPT
                 !.packages[CorrectedPackage].delivery_location = addr410,
                 !.packages[CorrectedPackage].status = AtHub,
                 !.hub.undeliverable_packages = @ \ {CorrectedPackage},
                 !.events.corrected = {CorrectedPackage},
                 !.events.corrections = @ + 1]
    ELSE w

\* Simulator.check_events
CheckEvents(w) == CorrectAddress(DelayedPackagesArrive(w))

RECURSIVE DriveAll(_, _)
\* the loop of advance_time over the trucks
DriveAll(w, truck_ids) ==
    IF truck_ids = << >> THEN w
    ELSE DriveAll(Drive(w, Head(truck_ids)), Tail(truck_ids))

\* advance_time with the trucks driven before the events are looked at
AdvanceTimeDriveFirst(w) ==
    LET w1 == DriveAll([w EXCEPT !.clock = @ + 1], Ascending(TruckIds))
    IN  IF w1.raised # "" THEN w1 ELSE CheckEvents(w1)

\* Simulator.advance_time
AdvanceTime(w) ==
    LET w1 == CheckEvents([w EXCEPT !.clock = @ + 1])
    IN  DriveAll(w1, Ascending(TruckIds))

\* is_finished that waits for the trucks to be back at the hub
IsFinishedBackAtHub ==
    /\ hub.remaining_packages = {}
    /\ \A t \in TruckIds :
           Len(trucks[t].packages) = 0 /\ trucks[t].location = HubId

\* Simulator.is_finished
IsFinished ==
    /\ hub.remaining_packages = {}
    /\ \A t \in TruckIds : Len(trucks[t].packages) = 0

\* the condition of the loop of Simulator.run
Running == ~ IsFinished /\ Now(clock) < stop_at

-----------------------------------------------------------------------------
(* Hub.sort_packages *)

\* list.append on the list stored under a key, a new list if there is none
AppendAt(table, key, value) ==
    IF key \in DOMAIN table
    THEN [table EXCEPT ![key] = Append(@, value)]
    ELSE table @@ (key :> << value >>)

RECURSIVE IndexDeliverWith(_, _, _)
\* the loop of sort_packages over package.deliver_with
IndexDeliverWith(w, package_id, others) ==
    IF others = << >> \/ w.raised # "" THEN w
    ELSE LET other == Head(others)
             w1 == [w EXCEPT !.hub.deliver_with =
                        AppendAt(@, other, package_id)]
         IN  IF other \notin DOMAIN w.packages
             THEN [w1 EXCEPT !.raised = "KeyError"]
             ELSE IndexDeliverWith(
                      [w1 EXCEPT !.hub.deliver_with[package_id] =
                                     Append(@, other)],
                      package_id, Tail(others))

\* the body of the loop of sort_packages that puts only the packages that are
\* at the hub in remaining_packages
IndexPackageAtHubOnly(w, package_id) ==
    LET package == w.packages[package_id]
        w1 == [w EXCEPT
                 !.hub.remaining_packages =
                     IF package.status = AtHub THEN @ \cup {package_id} ELSE @,
                 !.hub.priority_packages =
                     IF package.deadline # EOD THEN @ \cup {package_id} ELSE @,
                 !.hub.delayed_packages =
                     IF package.status = Delayed THEN @ \cup {package_id} ELSE @,
                 !.hub.undeliverable_packages =
                     IF package.status = Undeliverable
                     THEN @ \cup {package_id} ELSE @,
                 !.hub.truck2_only_packages =
                     IF package.truck2_only THEN @ \cup {package_id} ELSE @,
                 !.hub.deliver_with =
                     IF package_id \in DOMAIN @ THEN @
                     ELSE @ @@ (package_id :> << >>)]
        w2 == IndexDeliverWith(w1, package_id, package.deliver_with)
    IN  IF w2.raised # "" THEN w2
        ELSE [w2 EXCEPT
                !.hub.packages_by_location =
                    AppendAt(@, package.delivery_location, package_id),
                !.hub.packages_by_deadline =
                    AppendAt(@, package.deadline_time, package_id),
                !.hub.deadlines =
                    IF package.deadline_time
                           \in DOMAIN w2.hub.packages_by_deadline
                    THEN @ ELSE SortedInsert(@, package.deadline_time)]

\* the body of the loop of sort_packages, for one package
IndexPackage(w, package_id) ==
    LET package == w.packages[package_id]
        w1 == [w EXCEPT
                 !.hub.remaining_packages = @ \cup {package_id},
                 !.hub.priority_packages =
                     IF package.deadline # EOD THEN @ \cup {package_id} ELSE @,
                 !.hub.delayed_packages =
                     IF package.status = Delayed THEN @ \cup {package_id} ELSE @,
                 !.hub.undeliverable_packages =
                     IF package.status = Undeliverable
                     THEN @ \cup {package_id} ELSE @,
                 !.hub.truck2_only_packages =
                     IF package.truck2_only THEN @ \cup {package_id} ELSE @,
                 !.hub.deliver_with =
                     IF package_id \in DOMAIN @ THEN @
                     ELSE @ @@ (package_id :> << >>)]
        w2 == IndexDeliverWith(w1, package_id, package.deliver_with)
    IN  IF w2.raised # "" THEN w2
        ELSE [w2 EXCEPT
                !.hub.packages_by_location =
                    AppendAt(@, package.delivery_location, package_id),
                !.hub.packages_by_deadline =
                    AppendAt(@, package.deadline_time, package_id),
                !.hub.deadlines =
                    IF package.deadline_time
                           \in DOMAIN w2.hub.packages_by_deadline
                    THEN @ ELSE SortedInsert(@, package.deadline_time)]

RECURSIVE IndexPackages(_, _)
\* Hub.sort_packages, over all_packages in iteration order
IndexPackages(w, package_ids) ==
    IF package_ids = << >> \/ w.raised # "" THEN w
    ELSE IndexPackages(IndexPackage(w, Head(package_ids)), Tail(package_ids))

\* an empty HashTable of lists
EmptyTable == [k \in {} |-> << >>]

\* Hub.__init__: the index structures of a new hub
NewHub ==
    [all_packages |-> NewHashTable,
     remaining_packages |-> {}, priority_packages |-> {},
     delayed_packages |-> {}, undeliverable_packages |-> {},
     truck2_only_packages |-> {}, deliver_with |-> EmptyTable,
     packages_by_location |-> EmptyTable, packages_by_deadline |-> EmptyTable,
     deadlines |-> << >>]

\* Truck.__init__ with self.waiting = True
NewTruckWaiting ==
    [mile_tenths_driven |-> 0, mile_tenths_to_destination |-> 0,
     packages |-> << >>, destination |-> NoLocation, location |-> HubId,
     waiting |-> TRUE]

\* Truck.__init__
NewTruck ==
    [mile_tenths_driven |-> 0, mile_tenths_to_destination |-> 0,
     packages |-> << >>, destination |-> NoLocation, location |-> HubId,
     waiting |-> FALSE]

\* Package.__init__
NewPackage(delivery_location, deadline, status, truck2_only, deliver_with) ==
    [delivery_location |-> delivery_location, deadline |-> deadline,
     deadline_time |-> DeadlineTime(deadline), status |-> status,
     truck2_only |-> truck2_only, deliver_with |-> deliver_with]

-----------------------------------------------------------------------------
(* The data a run starts from *)

MaxDist == 3
DistChoices == {1, MaxDist}

\* the distance tables of two and of three locations, the hub first
Tables2 == { << <<0>>, <<a, 0>> >> : a \in DistChoices }
Tables3 ==
    { << <<0>>, <<1, 0>>, <<b, c, 0>> >> :
        b \in DistChoices, c \in DistChoices }

DeadlineChoices == { EOD, Deadline(8, 1, "AM"), Deadline(10, 30, "AM") }
StatusChoices == { AtHub, Delayed, Undeliverable }

\* one package, for the hub itself or for the only stop; no location has
\* the address of the correction
OnePackage ==
    { [distances |-> d, addr410 |-> NoLocation,
       packages |-> (1 :> NewPackage(l, dl, st, t2, << >>)), rows |-> << 1 >>,
       capacity |-> TruckCapacity, stop_at |-> stop] :
        d \in Tables2, l \in {0, 1}, dl \in DeadlineChoices,
        st \in StatusChoices, t2 \in BOOLEAN,
        stop \in { TimeOf(8, 2), EndOfDay } }

\* who lists whom in the special notes of three packages 1, 2 and 9
DeliverWithChoices ==
    { (1 :> << >> @@ 2 :> << >> @@ 9 :> << >>),
      (1 :> << 2 >> @@ 2 :> << >> @@ 9 :> << >>),
      (1 :> << 2 >> @@ 2 :> << 1 >> @@ 9 :> << >>),
      (1 :> << >> @@ 2 :> << 9 >> @@ 9 :> << >>),
      (1 :> << 2 >> @@ 2 :> << 9 >> @@ 9 :> << >>),
      (1 :> << >> @@ 2 :> << >> @@ 9 :> << 1, 2 >>) }

\* how many things set a load apart from a plain one (every package at the
\* hub, due at the end of the day, for any truck, on its own)
Special(pk) ==
    Cardinality({ p \in DOMAIN pk : pk[p].deadline # EOD })
    + Cardinality({ p \in DOMAIN pk : pk[p].status # AtHub })
    + Cardinality({ p \in DOMAIN pk : pk[p].truck2_only })
    + (IF \E p \in DOMAIN pk : pk[p].deliver_with # << >> THEN 1 ELSE 0)

\* three packages for two stops; package 9 is the one whose address is
\* wrong, and the right address is that of stop 2
ThreePackages ==
    { [distances |-> d, addr410 |-> 2, packages |-> pk,
       rows |-> << 1, 2, 9 >>, capacity |-> TruckCapacity,
       stop_at |-> stop] :
        d \in Tables3,
        pk \in { pk \in
                 { (1 :> NewPackage(l1, dl1, st1, t1, dw[1])
                    @@ 2 :> NewPackage(l2, dl2, AtHub, t2, dw[2])
                    @@ 9 :> NewPackage(1, EOD, st9, FALSE, dw[9])) :
                     l1 \in {1, 2}, l2 \in {1, 2},
                     dl1 \in DeadlineChoices, dl2 \in DeadlineChoices,
                     st1 \in {AtHub, Delayed},
                     st9 \in {AtHub, Undeliverable},
                     t1 \in BOOLEAN, t2 \in BOOLEAN,
                     dw \in DeliverWithChoices } : Special(pk) <= 2 },
        stop \in { TimeOf(8, 2), TimeOf(10, 25) } }

\* the distance tables of eighteen locations: the last one, which shares a
\* bucket of a table of 16 with location 1, is as far from every other as
\* they are from each other, or farther
Tables18 ==
    { [i \in 1 .. 18 |-> [j \in 1 .. i |->
          IF i = j THEN 0 ELSE IF i = 18 THEN far ELSE 1]] :
        far \in DistChoices }

\* packages 1 and 17, which share a bucket of a table of 16, in either
\* order of their rows, for locations 1 and 17; package 17 may list
\* package 1 in its notes
SharedBucket ==
    { [distances |-> d, addr410 |-> NoLocation,
       packages |-> (1 :> NewPackage(l1, EOD, AtHub, FALSE, << >>)
                     @@ 17 :> NewPackage(l17, dl17, AtHub, FALSE, dw17)),
       rows |-> rows, capacity |-> TruckCapacity, stop_at |-> EndOfDay] :
        d \in Tables18, l1 \in {1, 17}, l17 \in {1, 17},
        dl17 \in DeadlineChoices, dw17 \in { << >>, << 1 >> },
        rows \in { << 1, 17 >>, << 17, 1 >> } }

\* one package more than a truck holds
LoadSize == TruckCapacity + 1

\* the note of package i among the first n: it lists packages 2i and 2i + 1
NotedWith(i, n) ==
    (IF 2 * i <= n THEN << 2 * i >> ELSE << >>)
      \o (IF 2 * i + 1 <= n THEN << 2 * i + 1 >> ELSE << >>)

\* packages 1 to 17 at the hub, each for the stop of its own number; none of
\* them, as many as a truck holds or all of them are tied together by their
\* notes; the first and the last may be due at 8:01
FullLoad ==
    { [distances |-> d, addr410 |-> NoLocation,
       packages |->
           [i \in 1 .. LoadSize |->
              NewPackage(i, IF i = 1 THEN dl1
                         ELSE IF i = LoadSize THEN dl17 ELSE EOD,
                         AtHub, FALSE, NotedWith(i, noted))],
       rows |-> [i \in 1 .. LoadSize |-> i],
       capacity |-> TruckCapacity, stop_at |-> TimeOf(8, 10)] :
        d \in Tables18, noted \in {0, TruckCapacity, LoadSize},
        dl1 \in {EOD, Deadline(8, 1, "AM")},
        dl17 \in {EOD, Deadline(8, 1, "AM")} }

Datasets == OnePackage \cup ThreePackages \cup SharedBucket \cup FullLoad

\* the times a run may be told to stop at: "HH 8-23, MM 0-59"
CutoffChoices ==
    { TimeOf(8, 0), TimeOf(8, 1), TimeOf(9, 5), TimeOf(10, 19), TimeOf(10, 20),
      TimeOf(10, 21), TimeOf(17, 0), TimeOf(23, 59) }

\* one package, which may be package 9, for the hub or the only stop, and a
\* run to one of the cutoffs; the stop may have the address of the
\* correction
CutoffDatasets ==
    { [distances |-> d, addr410 |-> a,
       packages |-> (id :> NewPackage(l, EOD, st, FALSE, << >>)),
       rows |-> << id >>, capacity |-> TruckCapacity, stop_at |-> stop] :
        d \in Tables2, a \in {NoLocation, 1}, id \in {1, CorrectedPackage},
        l \in {0, 1}, st \in StatusChoices, stop \in CutoffChoices }

\* one package, which may be package 9, at the hub or delayed, for the only
\* stop, which may have the address of the correction, and a run to 17:00;
\* the stop is next door, or as far as a truck that leaves at 9:05 or at 8:00
\* gets a tick before 10:20 or at 10:20, or as far as a truck that leaves at
\* 8:00 gets at 17:00 or a tick later
OneWayDatasets ==
    { [distances |-> << <<0>>, <<d, 0>> >>, addr410 |-> a,
       packages |-> (id :> NewPackage(1, EOD, st, t2, << >>)),
       rows |-> << id >>, capacity |-> TruckCapacity, stop_at |-> EndOfDay] :
        d \in {1, 224, 225, 419, 420, 1620, 1621}, a \in {NoLocation, 1},
        id \in {1, CorrectedPackage}, st \in {AtHub, Delayed},
        t2 \in BOOLEAN }

\* the distances to a stop from which a truck that leaves at 8:00 is back
\* at the hub at 10:20 or a tick later
FarChoices == {210, 211}

\* the distance tables of four locations, the last one far from the others
TablesFar ==
    { << <<0>>, <<1, 0>>, <<b, c, 0>>, <<far, far, far, 0>> >> :
        b \in DistChoices, c \in DistChoices, far \in FarChoices }

\* trucks 1 and 2 leave at 8:00 with packages 1 and 2 for the far stop,
\* to which truck 1 goes first if package 1 is due at 8:01; packages 3 and
\* 4 arrive at the hub at 9:05, package 9 has the address of stop 1 until
\* it is corrected to that of stop 2
CorrectionDatasets ==
    { [distances |-> d, addr410 |-> 2,
       packages |-> (1 :> NewPackage(3, dl1, AtHub, FALSE, << >>)
                     @@ 2 :> NewPackage(3, EOD, AtHub, TRUE, << >>)
                     @@ 3 :> NewPackage(l3, dl3, Delayed, FALSE, << >>)
                     @@ 4 :> NewPackage(l4, EOD, Delayed, FALSE, << >>)
                     @@ 9 :> NewPackage(1, EOD, st9, FALSE, << >>)),
       rows |-> << 1, 2, 3, 4, 9 >>,
       capacity |-> TruckCapacity, stop_at |-> EndOfDay] :
        d \in TablesFar, dl1 \in {EOD, Deadline(8, 1, "AM")},
        l3 \in {1, 2}, dl3 \in DeadlineChoices,
        l4 \in {2, 3}, st9 \in {AtHub, Undeliverable} }

\* three packages of which package 2 is for the hub itself
HubStopDatasets ==
    { [distances |-> d, addr410 |-> 2,
       packages |-> (1 :> NewPackage(l1, dl1, st1, FALSE, << >>)
                     @@ 2 :> NewPackage(HubId, dl2, AtHub, FALSE, << >>)
                     @@ 9 :> NewPackage(1, EOD, st9, FALSE, << >>)),
       rows |-> << 1, 2, 9 >>,
       capacity |-> TruckCapacity, stop_at |-> stop] :
        d \in Tables3, l1 \in {1, 2},
        dl1 \in DeadlineChoices, dl2 \in DeadlineChoices,
        st1 \in {AtHub, Delayed}, st9 \in {AtHub, Undeliverable},
        stop \in { TimeOf(8, 10), TimeOf(10, 25) } }

-----------------------------------------------------------------------------
(* The run: Simulator.run *)

\* the world at the start of a handler; what the last step observed of
\* batches and events is forgotten
World ==
    [clock |-> clock, packages |-> packages, hub |-> hub, trucks |-> trucks,
     raised |-> raised, batches |-> [t \in TruckIds |-> NoBatch],
     accepted |-> accepted, routes |-> routes, legs |-> legs,
     events |-> [arrived |-> {}, corrected |-> {},
                 corrections |-> events.corrections]]

\* the variables take the values of the world w after a handler
Becomes(w, next_pc) ==
    /\ clock' = w.clock
    /\ packages' = w.packages
    /\ hub' = w.hub
    /\ trucks' = w.trucks
    /\ raised' = w.raised
    /\ batches' = w.batches
    /\ accepted' = w.accepted
    /\ routes' = w.routes
    /\ legs' = w.legs
    /\ events' = w.events
    /\ pc' = IF w.raised # "" THEN "raised" ELSE next_pc
    /\ UNCHANGED << stop_at, capacity, distances, addr410, setup >>
    /\ UNCHANGED << hash_table, reference, returned, routed, projected,
                    repaired >>

\* the loop of setup_packages: the packages are added to the HashTable
\* under their ids, in the order of their rows in packages.csv
SetupPackages(all_packages, rows) ==
    AddEach(all_packages, [i \in 1 .. Len(rows) |-> << rows[i], rows[i] >>])

\* setup_simulator, on one of the given data sets and with a clock that
\* starts at the given time
SetupAt(datasets, start_time) ==
    /\ \E ds \in datasets :
         /\ distances = ds.distances
         /\ addr410 = ds.addr410
         /\ packages = ds.packages
         /\ hub = [NewHub EXCEPT !.all_packages = SetupPackages(@, ds.rows)]
         /\ capacity = ds.capacity
         /\ stop_at = ds.stop_at
    /\ clock = start_time
    /\ trucks = [t \in TruckIds |-> NewTruck]
    /\ raised = ""
    /\ batches = [t \in TruckIds |-> NoBatch]
    /\ setup = packages
    /\ accepted = [p \in DOMAIN packages |-> 0]
    /\ routes = [p \in DOMAIN packages |-> NoRoute]
    /\ legs = [t \in TruckIds |-> 0]
    /\ events = [arrived |-> {}, corrected |-> {}, corrections |-> 0]
    /\ pc = "sort_packages"

\* setup_simulator, on one of the given data sets
InitFrom(datasets) == SetupAt(datasets, StartTime)

\* no HashTable is used on its own, nothing has been called on it
NoTable ==
    /\ hash_table = NewHashTable
    /\ reference = << >>
    /\ returned = NoCall

\* shortest_path has not been called on its own
NoRouting ==
    routed = [made |-> FALSE, locations |-> {}, added |-> << >>,
              starting_location |-> HubId, path |-> << >>]

\* time_after_increments has not been called on its own
NoProjection ==
    projected = [made |-> FALSE, at |-> 0, increments |-> 0, time |-> 0]

\* fix_late_deliveries has not been called on its own
NoRepair ==
    repaired = [made |-> FALSE, given |-> << >>, returned |-> << >>]

\* nothing is used on its own
NoCalls == NoTable /\ NoRouting /\ NoProjection /\ NoRepair

Init == InitFrom(Datasets) /\ NoCalls

\* self.hub.sort_packages()
SortPackages ==
    /\ pc = "sort_packages"
    /\ Becomes(IndexPackages(World, Values(hub.all_packages)), "arrive_1")

\* self.hub.arrive(self.trucks[0])
ArriveFirst ==
    /\ pc = "arrive_1"
    /\ Becomes(HubArrive(World, 1), "arrive_2")

\* self.hub.arrive(self.trucks[1])
ArriveSecond ==
    /\ pc = "arrive_2"
    /\ Becomes(HubArrive(World, 2), "loop")

\* one iteration of the loop: self.advance_time()
Tick ==
    /\ pc = "loop"
    /\ Running
    /\ Becomes(AdvanceTime(World), "loop")

\* the loop ends and the status is printed
Finish ==
    /\ pc = "loop"
    /\ ~ Running
    /\ Becomes(World, "done")

Next == SortPackages \/ ArriveFirst \/ ArriveSecond \/ Tick \/ Finish

Spec == Init /\ [][Next]_vars

\* the runs in which trucks are back at the hub after the correction
CorrectionInit == InitFrom(CorrectionDatasets) /\ NoCalls
CorrectionSpec == CorrectionInit /\ [][Next]_vars

\* the runs with a package for the hub
HubStopInit == InitFrom(HubStopDatasets) /\ NoCalls
HubStopSpec == HubStopInit /\ [][Next]_vars

\* the runs to a cutoff
CutoffInit == InitFrom(CutoffDatasets) /\ NoCalls
CutoffSpec == CutoffInit /\ [][Next]_vars

\* a statement of Simulator.run is executed: a run that has not ended takes
\* its next step, which moves it to another statement or is a pass of the
\* loop, which advances the clock by one tick.  Next has a step exactly in the
\* states in which run has neither returned nor raised, and every step of
\* Next is such a step (EveryStepProceeds), so that weak fairness of Proceeds
\* is weak fairness of Next; it is stated on pc and clock alone to spare the
\* model checker the evaluation of the handlers in every fairness test
Proceeds ==
    /\ pc \notin {"done", "raised"}
    /\ pc' \in {"arrive_1", "arrive_2", "loop", "done", "raised"}
    /\ clock' \in {clock, clock + 1}

\* the runs with one package for one stop, which go on until run returns or
\* raises: the interpreter goes on executing Simulator.run
OneWayInit == InitFrom(OneWayDatasets) /\ NoCalls
OneWaySpec == OneWayInit /\ [][Next]_vars /\ WF_<< pc, clock >>(Proceeds)

\* every step of a run is the execution of a statement of Simulator.run, and
\* a run that has not ended can take one
EveryStepProceeds ==
    /\ [][Proceeds /\ << pc, clock >>' # << pc, clock >>]_vars
    /\ [](pc \notin {"done", "raised"} =>
            /\ pc \in {"sort_packages", "arrive_1", "arrive_2", "loop"}
            /\ raised = "")

-----------------------------------------------------------------------------
(* A HashTable used on its own *)

MaxBuckets == 64
TableLengths == {1, 2, 16}
TableLoadFactors == { [num |-> 1, den |-> 4], [num |-> 3, den |-> 4] }
TableKeys == {0, 1, 4, 8}
TableValues == {"a", "b"}

\* a simulator that is not run
Parked ==
    { [distances |-> << <<0>>, <<1, 0>> >>, addr410 |-> NoLocation,
       packages |-> (1 :> NewPackage(1, EOD, AtHub, FALSE, << >>)),
       rows |-> << 1 >>, capacity |-> TruckCapacity, stop_at |-> EndOfDay] }

\* HashTable(length, load_factor)
TableInit ==
    /\ InitFrom(Parked) /\ NoRouting /\ NoProjection /\ NoRepair
    /\ \E length \in TableLengths : \E load_factor \in TableLoadFactors :
           hash_table = HashTable(length, load_factor)
    /\ reference = << >>
    /\ returned = NoCall

\* what the last call was and what it gave
Called(op, key, result) ==
    returned' = [op |-> op, key |-> key, known |-> key \in DOMAIN reference,
                 result |-> result]

\* hash_table.add(key, value)
TableAdd ==
    \E key \in TableKeys : \E value \in TableValues :
        /\ hash_table' = Add(hash_table, key, value)
        /\ reference' = (key :> value) @@ reference
        /\ Called("add", key, Returns(None))
        /\ UNCHANGED << simvars, routed, projected, repaired >>

\* hash_table.remove(key)
TableRemove ==
    \E key \in TableKeys :
        /\ hash_table' = Remove(hash_table, key)
        /\ reference' = [k \in DOMAIN reference \ {key} |-> reference[k]]
        /\ Called("remove", key, Returns(None))
        /\ UNCHANGED << simvars, routed, projected, repaired >>

\* hash_table.pop(key)
TablePop ==
    \E key \in TableKeys :
        /\ hash_table' = Pop(hash_table, key).table
        /\ reference' = [k \in DOMAIN reference \ {key} |-> reference[k]]
        /\ Called("pop", key, Pop(hash_table, key).returned)
        /\ UNCHANGED << simvars, routed, projected, repaired >>

\* hash_table.get(key)
TableGet ==
    \E key \in TableKeys :
        /\ Called("get", key, Get(hash_table, key))
        /\ UNCHANGED << simvars, hash_table, reference, routed, projected,
                        repaired >>

\* hash_table.double()
TableDouble ==
    /\ Len(hash_table.array) < MaxBuckets
    /\ hash_table' = Double(hash_table)
    /\ Called("double", 0, Returns(None))
    /\ UNCHANGED << simvars, reference, routed, projected, repaired >>

TableNext ==
    TableAdd \/ TableRemove \/ TablePop \/ TableGet \/ TableDouble

TableSpec == TableInit /\ [][TableNext]_vars

-----------------------------------------------------------------------------
(* HashTable() of the default length and load factor, filled until it has  *)
(* doubled twice *)

\* the keys, and the value they are added with
DefaultKeys == 0 .. 25
DefaultValue == "a"

\* the keys of the table stay a run of consecutive integers: the key next
\* to an end of the run may be added, and the key at an end removed
Joins(key) ==
    \/ DOMAIN reference = {}
    \/ key \in DOMAIN reference
    \/ key + 1 \in DOMAIN reference
    \/ key - 1 \in DOMAIN reference
AtAnEnd(key) ==
    \/ key \notin DOMAIN reference
    \/ key + 1 \notin DOMAIN reference
    \/ key - 1 \notin DOMAIN reference

\* HashTable()
DefaultInit == InitFrom(Parked) /\ NoCalls

\* hash_table.add(key, value)
DefaultAdd ==
    \E key \in DefaultKeys :
        /\ Joins(key)
        /\ hash_table' = Add(hash_table, key, DefaultValue)
        /\ reference' = (key :> DefaultValue) @@ reference
        /\ Called("add", key, Returns(None))
        /\ UNCHANGED << simvars, routed, projected, repaired >>

\* hash_table.remove(key)
DefaultRemove ==
    \E key \in DefaultKeys :
        /\ AtAnEnd(key)
        /\ hash_table' = Remove(hash_table, key)
        /\ reference' = [k \in DOMAIN reference \ {key} |-> reference[k]]
        /\ Called("remove", key, Returns(None))
        /\ UNCHANGED << simvars, routed, projected, repaired >>

\* hash_table.pop(key)
DefaultPop ==
    \E key \in DefaultKeys :
        /\ AtAnEnd(key)
        /\ hash_table' = Pop(hash_table, key).table
        /\ reference' = [k \in DOMAIN reference \ {key} |-> reference[k]]
        /\ Called("pop", key, Pop(hash_table, key).returned)
        /\ UNCHANGED << simvars, routed, projected, repaired >>

DefaultNext == DefaultAdd \/ DefaultRemove \/ DefaultPop

DefaultSpec == DefaultInit /\ [][DefaultNext]_vars

-----------------------------------------------------------------------------
(* shortest_path called on its own *)

\* the locations routed: 1 and 17 share a bucket of a table of 16
RouterLocations == {0, 1, 2, 17}

\* the distance tables of eighteen locations, with any distances between
\* the four locations routed
RouterTables ==
    { [i \in 1 .. 18 |-> [j \in 1 .. i |->
          IF i = j THEN 0
          ELSE IF i = 2 THEN a
          ELSE IF i = 3 THEN << b, c >>[j]
          ELSE IF i = 18 /\ j <= 3 THEN << d, e, f >>[j]
          ELSE 1]] :
        a \in DistChoices, b \in DistChoices, c \in DistChoices,
        d \in DistChoices, e \in DistChoices, f \in DistChoices }

RouterDatasets ==
    { [distances |-> d, addr410 |-> NoLocation,
       packages |-> (1 :> NewPackage(1, EOD, AtHub, FALSE, << >>)),
       rows |-> << 1 >>, capacity |-> TruckCapacity, stop_at |-> EndOfDay] :
        d \in RouterTables }

\* the locations to route, the order they are added to their table in and
\* the location to start from
RouterInit ==
    /\ InitFrom(RouterDatasets) /\ NoTable /\ NoProjection /\ NoRepair
    /\ \E locations \in SUBSET RouterLocations :
         \E added \in Orders(locations) :
           \E starting_location \in RouterLocations :
             routed = [made |-> FALSE, locations |-> locations,
                       added |-> added,
                       starting_location |-> starting_location,
                       path |-> << >>]

\* shortest_path(locations, starting_location), locations the table of
\* package_locations to which the locations were added in the order added
Route ==
    /\ ~ routed.made
    /\ routed' = [routed EXCEPT
                    !.made = TRUE,
                    !.path = ShortestPath(LocationTable(routed.added),
                                          routed.starting_location)]
    /\ UNCHANGED << simvars, hash_table, reference, returned, projected,
                    repaired >>

RouterNext == Route

RouterSpec == RouterInit /\ [][RouterNext]_vars

-----------------------------------------------------------------------------
(* A Clock used on its own *)

MaxAdvances == 8
MaxIncrements == 6
ClockStarts == { TimeOf(8, 0), TimeOf(23, 59) }

\* Clock(start_time, increment)
ClockInit ==
    /\ \E start_time \in ClockStarts : SetupAt(Parked, start_time)
    /\ NoCalls

\* clock.advance_time()
ClockAdvance ==
    /\ \E start_time \in ClockStarts :
          start_time <= clock /\ clock < start_time + MaxAdvances
    /\ clock' = clock + 1
    /\ UNCHANGED << stop_at, capacity, distances, addr410, packages, hub,
                    trucks, pc, raised, setup, batches, accepted, routes,
                    legs, events >>
    /\ UNCHANGED << hash_table, reference, returned, routed, projected,
                    repaired >>

\* clock.time_after_increments(increments)
ClockProject ==
    \E increments \in 0 .. MaxIncrements :
        /\ projected' = [made |-> TRUE, at |-> clock,
                         increments |-> increments,
                         time |-> TimeAfterIncrements(clock, increments)]
        /\ UNCHANGED << simvars, hash_table, reference, returned, routed,
                        repaired >>

ClockNext == ClockAdvance \/ ClockProject

ClockSpec == ClockInit /\ [][ClockNext]_vars

-----------------------------------------------------------------------------
(* Hub.fix_late_deliveries called on its own *)

\* the times of the clock at the call
RepairTimes == { TimeOf(8, 0), TimeOf(16, 59) }

\* three packages at the hub for two stops, each with any of the deadlines
RepairDatasets ==
    { [distances |-> d, addr410 |-> NoLocation,
       packages |-> (1 :> NewPackage(l1, dl1, AtHub, FALSE, << >>)
                     @@ 2 :> NewPackage(l2, dl2, AtHub, FALSE, << >>)
                     @@ 9 :> NewPackage(l9, dl9, AtHub, FALSE, << >>)),
       rows |-> << 1, 2, 9 >>, capacity |-> TruckCapacity, stop_at |-> EndOfDay] :
        d \in Tables3, l1 \in {1, 2}, l2 \in {1, 2}, l9 \in {1, 2},
        dl1 \in DeadlineChoices, dl2 \in DeadlineChoices,
        dl9 \in DeadlineChoices }

RepairInit ==
    /\ \E start_time \in RepairTimes : SetupAt(RepairDatasets, start_time)
    /\ NoCalls

\* the lists of distinct packages
PackageLists ==
    UNION { Orders(S) : S \in SUBSET DOMAIN packages }

\* hub.fix_late_deliveries(given)
Repair ==
    \E given \in PackageLists :
        /\ repaired' = [made |-> TRUE, given |-> given,
                        returned |-> FixLateDeliveries(World, given)]
        /\ UNCHANGED << simvars, hash_table, reference, returned, routed,
                        projected >>

RepairNext == Repair

RepairSpec == RepairInit /\ [][RepairNext]_vars

-----------------------------------------------------------------------------
(* Properties *)

\* the packages of the batch truck t was given in the last step
BatchOf(t) == Range(batches[t].items)

\* the packages truck t carries
Carried(t) == Range(trucks[t].packages)

\* package p names package q in its special notes
Lists(p, q) == q \in Range(setup[p].deliver_with)

RECURSIVE Reach(_)
\* the packages linked to a set of packages by the special notes, in either
\* direction and through others
Reach(S) ==
    LET T == S \cup { q \in DOMAIN setup :
                        \E p \in S : Lists(p, q) \/ Lists(q, p) }
    IN  IF T = S THEN S ELSE Reach(T)

\* the co-delivery closure of a package
Closure(p) == Reach({p})

\* C1: no batch next_batch returns has more packages than the truck's
\* capacity, and no truck ever carries more packages than its capacity
BatchWithinCapacity ==
    \A t \in TruckIds :
        /\ Len(batches[t].items) <= capacity
        /\ Len(trucks[t].packages) <= capacity

\* a truck was given a full batch while more packages were eligible for it
FullBatchLeavesEligible ==
    \E t \in TruckIds :
        /\ batches[t].computed
        /\ Len(batches[t].items) = capacity
        /\ Len(trucks[t].packages) = capacity
        /\ Cardinality(batches[t].eligible) > capacity

\* C2: a batch holds all of a package's co-delivery closure or none of it;
\* it holds none of it if a member is not eligible for the truck or the
\* closure is larger than the truck's capacity
GroupAllOrNothing ==
    \A t \in TruckIds : \A p \in DOMAIN setup :
        batches[t].computed /\ Closure(p) \cap BatchOf(t) # {} =>
            /\ Closure(p) \subseteq BatchOf(t)
            /\ Closure(p) \subseteq batches[t].eligible
            /\ Cardinality(Closure(p)) <= capacity

\* a batch with room left passed over an eligible package because a member
\* of its closure was not eligible
GroupSkippedForMember ==
    \E t \in TruckIds : \E p \in DOMAIN setup :
        /\ batches[t].computed
        /\ batches[t].items # << >>
        /\ p \in batches[t].eligible
        /\ ~ (Closure(p) \subseteq batches[t].eligible)
        /\ Closure(p) \cap BatchOf(t) = {}
        /\ Len(batches[t].items) + Cardinality(Closure(p)) <= capacity

\* C3: a package restricted to truck 2 is never carried by truck 1 or 3 and
\* never has the status of being on one of them
Truck2OnlyStaysOffOthers ==
    \A p \in DOMAIN packages :
        packages[p].truck2_only =>
            /\ \A t \in TruckIds \ {Truck2} :
                   p \notin Carried(t) /\ p \notin BatchOf(t)
            /\ packages[p].status.kind = "On Truck" =>
                   packages[p].status.truck = Truck2

\* truck 1 took a package and left behind, although it had room for them,
\* a package for truck 2 only that goes to the same stop, and a package for
\* any truck that was ready but is in the group of the one for truck 2 only
Truck2OnlyPassedOver ==
    \E p, r \in DOMAIN packages : \E q \in BatchOf(1) :
        /\ batches[1].computed
        /\ Len(batches[1].items) + 2 <= capacity
        /\ packages[p].truck2_only
        /\ p \in hub.remaining_packages
        /\ p \notin hub.delayed_packages \cup hub.undeliverable_packages
        /\ packages[p].delivery_location = packages[q].delivery_location
        /\ p \notin Closure(q)
        /\ r # p /\ ~ packages[r].truck2_only
        /\ p \in Closure(r)
        /\ r \in batches[1].eligible
        /\ r \in hub.remaining_packages

\* truck t may carry package p
Allowed(p, t) == ~ setup[p].truck2_only \/ t = Truck2

\* C4: a package delayed at setup is in no batch before 9:05; at 9:05 the
\* event sets every delayed package to "At Package Hub" and empties the
\* delayed index, and from then on the package is eligible in every batch
\* computation for a truck that may carry it, until it is accepted
DelayedHeldUntilArrival ==
    /\ events.arrived # {} => Now(clock) = DelayedArrival
    /\ \A p \in DOMAIN setup :
         setup[p].status = Delayed =>
           IF Now(clock) < DelayedArrival
           THEN /\ accepted[p] = 0
                /\ packages[p].status = Delayed
                /\ pc # "sort_packages" => p \in hub.delayed_packages
                /\ \A t \in TruckIds : p \notin BatchOf(t) /\ p \notin Carried(t)
           ELSE /\ hub.delayed_packages = {}
                /\ packages[p].status # Delayed
                /\ Now(clock) = DelayedArrival /\ pc = "loop" =>
                       /\ p \in events.arrived
                       /\ accepted[p] = 0 => packages[p].status = AtHub
                /\ \A t \in TruckIds :
                       batches[t].computed /\ Allowed(p, t) =>
                           p \in batches[t].eligible \/ accepted[p] > 0

\* a delayed package is released at 9:05 and goes on a truck in that tick
DelayedLoadedOnArrival ==
    \E p \in DOMAIN setup : \E t \in TruckIds :
        /\ setup[p].status = Delayed
        /\ Now(clock) = DelayedArrival
        /\ p \in events.arrived
        /\ p \in BatchOf(t)
        /\ packages[p].status = OnTruck(t)

\* the packages that are undeliverable at setup
UndeliverableAtSetup ==
    { p \in DOMAIN setup : setup[p].status = Undeliverable }

\* C5: in a run that reaches 10:20 the address correction is applied once,
\* on the tick of 10:20: package 9 gets the location of the corrected
\* address, the status "At Package Hub", and leaves the undeliverable
\* index; no tick before or after changes its location or the index
AddressCorrectedOnce ==
    LET applies == CorrectedPackage \in DOMAIN setup /\ addr410 # NoLocation
    IN  /\ events.corrections =
               IF Now(clock) >= AddressCorrection /\ applies THEN 1 ELSE 0
        /\ events.corrected # {} =>
               /\ Now(clock) = AddressCorrection
               /\ events.corrected = {CorrectedPackage}
        /\ \A p \in DOMAIN setup \ {CorrectedPackage} :
               packages[p].delivery_location = setup[p].delivery_location
        /\ CorrectedPackage \in DOMAIN setup /\ pc # "sort_packages" =>
               IF events.corrections = 0
               THEN /\ packages[CorrectedPackage].delivery_location =
                           setup[CorrectedPackage].delivery_location
                    /\ hub.undeliverable_packages = UndeliverableAtSetup
               ELSE /\ packages[CorrectedPackage].delivery_location = addr410
                    /\ hub.undeliverable_packages =
                           UndeliverableAtSetup \ {CorrectedPackage}
                    /\ setup[CorrectedPackage].status = Undeliverable =>
                           IF accepted[CorrectedPackage] = 0 \/ raised # ""
                           THEN packages[CorrectedPackage].status = AtHub
                           ELSE packages[CorrectedPackage].status.kind
                                    \in {"On Truck", "Delivered at"}

\* the run goes on after the correction of the undeliverable package 9
RunsOnAfterCorrection ==
    /\ CorrectedPackage \in DOMAIN setup
    /\ setup[CorrectedPackage].status = Undeliverable
    /\ events.corrections = 1
    /\ Now(clock) > AddressCorrection
    /\ pc = "loop"
    /\ packages[CorrectedPackage].delivery_location
           # setup[CorrectedPackage].delivery_location
    /\ packages[CorrectedPackage].status.kind = "Delivered at"

\* C6: every package of a batch was eligible when it was accepted: in the
\* remaining index, in neither the undeliverable nor the delayed index, and
\* free to go on the truck; so no truck ever carries an undeliverable or a
\* delayed package
AcceptedWereEligible ==
    /\ [](\A t \in TruckIds : \A p \in Carried(t) :
             /\ p \notin hub.undeliverable_packages
             /\ p \notin hub.delayed_packages)
    /\ [][\A t \in TruckIds :
            batches'[t].computed =>
              \A p \in Range(batches'[t].items) :
                 /\ p \in hub.remaining_packages
                 /\ p \notin hub'.remaining_packages
                 /\ p \notin hub'.undeliverable_packages
                 /\ p \notin hub'.delayed_packages
                 /\ Allowed(p, t)]_vars

\* a truck was given a batch while a package of the remaining index was
\* undeliverable or delayed
BatchLeavesIneligible ==
    \E t \in TruckIds : \E q \in hub.remaining_packages :
        /\ batches[t].computed
        /\ batches[t].items # << >>
        /\ q \in hub.undeliverable_packages \cup hub.delayed_packages

\* the status of package p says it was delivered
IsDelivered(p) == packages[p].status.kind = "Delivered at"

\* C7 as stated: once the packages are indexed, a package is in the
\* remaining index if and only if its status is not a delivered status
RemainingIffUndelivered ==
    pc # "sort_packages" =>
        \A p \in DOMAIN packages :
            p \in hub.remaining_packages <=> ~ IsDelivered(p)

\* package p is on a truck or has been delivered, by its status or by the
\* list of a truck
LoadedOrDelivered(p) ==
    \/ packages[p].status.kind \in {"On Truck", "Delivered at"}
    \/ \E t \in TruckIds : p \in Carried(t)

\* C7: a package is in the remaining index from the indexing until it is
\* loaded on a truck: sort_packages puts every package in the index, a
\* package leaves the index in the step in which it is put on a truck and in
\* no other, and never comes back; so a package that is on a truck or
\* delivered is not in the remaining index
RemainingUntilLoaded ==
    /\ [](pc = "arrive_1" => hub.remaining_packages = DOMAIN packages)
    /\ [](pc # "sort_packages" =>
            \A p \in DOMAIN packages :
                LoadedOrDelivered(p) => p \notin hub.remaining_packages)
    /\ [][pc # "sort_packages" =>
            \A p \in DOMAIN packages :
                /\ p \notin hub.remaining_packages
                       => p \notin hub'.remaining_packages
                /\ raised' = "" =>
                       ((p \in hub.remaining_packages
                            /\ p \notin hub'.remaining_packages)
                        <=> \E t \in TruckIds :
                               /\ p \notin Carried(t)
                               /\ p \in Carried(t)'
                               /\ packages'[p].status = OnTruck(t))]_vars

\* a package is on its way on a truck: neither in the remaining index nor
\* delivered
CarriedNotRemaining ==
    \E p \in DOMAIN packages : \E t \in TruckIds :
        /\ pc = "loop"
        /\ p \in Carried(t)
        /\ packages[p].status = OnTruck(t)
        /\ p \notin hub.remaining_packages
        /\ ~ IsDelivered(p)

\* a list holds no package twice
NoDuplicates(pkgs) ==
    \A i, j \in 1 .. Len(pkgs) : pkgs[i] = pkgs[j] => i = j

\* C8: a package leaves the remaining index, and the priority index if it
\* is in it, in the step in which add_to_batch accepts it and in no other;
\* it is accepted at most once, never put back into the remaining index,
\* and is in at most one batch, once
AcceptedOnce ==
    /\ [](\A p \in DOMAIN setup :
             /\ accepted[p] <= 1
             /\ \A t \in TruckIds :
                    /\ NoDuplicates(batches[t].items)
                    /\ NoDuplicates(trucks[t].packages)
                    /\ \A u \in TruckIds \ {t} :
                           ~ (p \in BatchOf(t) /\ p \in BatchOf(u))
                           /\ ~ (p \in Carried(t) /\ p \in Carried(u)))
    /\ [][\A p \in DOMAIN setup :
            LET taken == accepted'[p] = accepted[p] + 1
            IN  /\ accepted'[p] # accepted[p] => taken
                /\ (p \in hub.remaining_packages
                      /\ p \notin hub'.remaining_packages) <=> taken
                /\ (p \in hub.priority_packages
                      /\ p \notin hub'.priority_packages)
                       <=> (taken /\ p \in hub.priority_packages)
                /\ pc # "sort_packages" /\ p \notin hub.remaining_packages
                       => p \notin hub'.remaining_packages
                /\ pc # "sort_packages" /\ p \notin hub.priority_packages
                       => p \notin hub'.priority_packages
                /\ (\E t \in TruckIds : p \in Range(batches'[t].items))
                       => taken
                /\ taken /\ raised' = ""
                       => \E t \in TruckIds : p \in Range(batches'[t].items)
         ]_vars

\* a truck is given a batch after another package, with a deadline, was
\* accepted and delivered; that package is in neither index nor the batch
LaterBatchWithoutAccepted ==
    \E t \in TruckIds : \E p \in DOMAIN setup :
        /\ batches[t].computed
        /\ batches[t].items # << >>
        /\ accepted[p] = 1
        /\ setup[p].deadline # EOD
        /\ IsDelivered(p)
        /\ p \notin BatchOf(t)
        /\ p \notin hub.remaining_packages \cup hub.priority_packages

\* the package of a data set that has one package
OnlyPackage == CHOOSE p \in DOMAIN setup : TRUE

\* the data of C9: the hub and one stop, one package for the stop due at
\* the end of the day and at the hub or delayed, capacity 16, a run to the
\* end of the day
RoundTripCase ==
    /\ Len(distances) = 2
    /\ Cardinality(DOMAIN setup) = 1
    /\ setup[OnlyPackage].delivery_location = 1
    /\ setup[OnlyPackage].deadline = EOD
    /\ setup[OnlyPackage].status \in {AtHub, Delayed}
    /\ capacity = TruckCapacity
    /\ stop_at = EndOfDay

ReachesStopAt ==
    (IF setup[OnlyPackage].status = Delayed THEN DelayedArrival
     ELSE StartTime) + DistanceTo(HubId, 1)

\* the truck is at the stop before the run is over: by 17:00 if the package
\* is package 9, and before 10:20 if there is no package 9 for check_events
\* to look up at 10:20
ReachedInTime ==
    IF OnlyPackage = CorrectedPackage THEN ReachesStopAt <= stop_at
    ELSE ReachesStopAt < AddressCorrection

LateInGreedy(p) ==
    /\ routes[p].routed
    /\ setup[p].deadline # EOD
    /\ routes[p].greedy_due > setup[p].deadline_time

Moves(t) ==
    \/ trucks'[t].location # trucks[t].location
    \/ trucks'[t].mile_tenths_to_destination
           = trucks[t].mile_tenths_to_destination - 1

\* C11: a truck's mileage goes up by one in the steps in which the truck
\* moves and in no other, never while it waits or has no distance left to
\* its destination; it is the sum of the distances the truck was given to
\* drive less the distance left to its destination, and the total that is
\* reported is the sum of the mileages of the trucks
MileageCountsMoves ==
    /\ [](/\ \A t \in TruckIds :
                MileTenthsDriven(t)
                    = legs[t] - trucks[t].mile_tenths_to_destination
          /\ TotalMileTenths = MileTenthsDriven(1) + MileTenthsDriven(2)
                                   + MileTenthsDriven(3))
    /\ [][\A t \in TruckIds :
            /\ MileTenthsDriven(t)' =
                   MileTenthsDriven(t) + (IF Moves(t) THEN 1 ELSE 0)
            /\ trucks[t].waiting \/ trucks[t].mile_tenths_to_destination = 0
                   => MileTenthsDriven(t)' = MileTenthsDriven(t)
            /\ pc = "loop" /\ Running /\ raised' = "" /\ ~ trucks[t].waiting
                 /\ trucks[t].mile_tenths_to_destination > 0 => Moves(t)
         ]_vars

\* two trucks have driven, one of them more than one leg, and one is on
\* its way with distance left
TwoTrucksHaveDriven ==
    /\ MileTenthsDriven(1) > 0
    /\ MileTenthsDriven(2) > 0
    /\ TotalMileTenths = MileTenthsDriven(1) + MileTenthsDriven(2)
    /\ \E t \in TruckIds :
           /\ legs[t] > MileTenthsDriven(t)
           /\ trucks[t].location # HubId
           /\ MileTenthsDriven(t)
                  > DistanceTo(HubId, trucks[t].location)

\* C12: the loop of Simulator.run ends after at most as many ticks as lie
\* between 8:00 and the cutoff: every pass of the loop advances the clock by
\* one tick and comes back to the test of the loop, and the clock is never
\* past the cutoff; the loop goes on only while something is left to deliver
\* and the clock is before the cutoff, and ends, with run going on to
\* print_status, at the first test at which that is not so
LoopStopsAtCutoff ==
    /\ [](StartTime <= clock /\ clock <= stop_at /\ Now(clock) = clock)
    /\ [](pc = "done" => IsFinished \/ Now(clock) = stop_at)
    /\ [][pc = "loop" =>
            IF IsFinished \/ Now(clock) >= stop_at
            THEN pc' = "done" /\ clock' = clock
            ELSE clock' = clock + 1 /\ pc' = "loop"]_vars

\* what holds of the loop in the runs of one package: a pass that does not
\* come back to the test of the loop is the pass of 10:20, ended by a
\* KeyError: of check_events in a run without package 9, or of
\* add_packages_by_location for the corrected location of package 9
LoopStopsAtCutoffOrRaises ==
    /\ [](StartTime <= clock /\ clock <= stop_at /\ Now(clock) = clock)
    /\ [](pc = "done" => IsFinished \/ Now(clock) = stop_at)
    /\ [][pc = "loop" =>
            IF IsFinished \/ Now(clock) >= stop_at
            THEN pc' = "done" /\ clock' = clock
            ELSE /\ clock' = clock + 1
                 /\ pc' \in {"loop", "raised"}
                 /\ pc' = "raised" =>
                        /\ Now(clock') = AddressCorrection
                        /\ raised' = "KeyError"]_vars

\* the loop was left at 10:20, before the cutoff and with a package still to
\* deliver, by the KeyError of check_events
LoopLeftByKeyError ==
    /\ pc = "raised" /\ raised = "KeyError"
    /\ Now(clock) = AddressCorrection
    /\ Now(clock) < stop_at
    /\ ~ IsFinished
    /\ CorrectedPackage \notin DOMAIN setup

\* package p is eligible in the batch computation for truck t of this step,
\* or a truck that drives before t has taken it in this step
SeenBy(p, t) ==
    \/ p \in batches'[t].eligible
    \/ \E u \in TruckIds : u < t /\ p \in Range(batches'[u].items)

\* C13: a tick advances the clock, then lets the events of the new time
\* happen, then drives the trucks: the events are those of the new time,
\* a batch computed in the tick finds the packages the tick released
\* eligible, package 9 at its corrected location, and a delivery of the
\* tick is stamped with the new time
TickOrder ==
    [][pc = "loop" /\ Running =>
         /\ clock' = clock + 1
         /\ events'.arrived =
                IF Now(clock') = DelayedArrival
                THEN hub.delayed_packages ELSE {}
         /\ events'.corrected # {} <=>
                /\ Now(clock') = AddressCorrection
                /\ CorrectedPackage \in DOMAIN setup
                /\ addr410 # NoLocation
         /\ \A t \in TruckIds :
                batches'[t].computed =>
                    /\ batches'[t].eligible \cap hub'.delayed_packages = {}
                    /\ \A p \in events'.arrived \cup events'.corrected :
                           Allowed(p, t) /\ p \in hub.remaining_packages
                               => SeenBy(p, t)
                    /\ \A p \in events'.corrected \cap Range(batches'[t].items) :
                           /\ packages'[p].delivery_location = addr410
                           /\ routes'[p].pos = 1 =>
                                  routes'[p].due
                                      = clock' + DistanceTo(HubId, addr410)
         /\ \A p \in DOMAIN setup :
                packages'[p].status.kind = "Delivered at"
                  /\ packages[p].status.kind # "Delivered at"
                    => packages'[p].status.at = Now(clock')
    ]_vars

\* package 9, undeliverable until 10:20, goes on a truck in the tick of
\* 10:20, bound for the corrected address
CorrectedLoadedOnCorrection ==
    \E t \in TruckIds :
        /\ CorrectedPackage \in DOMAIN setup
        /\ setup[CorrectedPackage].status = Undeliverable
        /\ Now(clock) = AddressCorrection
        /\ events.corrected = {CorrectedPackage}
        /\ CorrectedPackage \in BatchOf(t)
        /\ packages[CorrectedPackage].status = OnTruck(t)
        /\ trucks[t].destination = addr410

\* C14 as stated: a batch computed while a package is eligible for the
\* truck is not empty, and the truck does not wait
NonEmptyWhenEligible ==
    \A t \in TruckIds :
        batches[t].computed /\ batches[t].eligible # {} =>
            batches[t].items # << >> /\ ~ trucks[t].waiting

\* the co-delivery closure of p can go on truck t as a whole: every member
\* was eligible when the batch was computed, and they fit the capacity
Loadable(p, t) ==
    /\ p \in batches[t].eligible
    /\ Closure(p) \subseteq batches[t].eligible
    /\ Cardinality(Closure(p)) <= capacity

\* C14: next_batch returns the empty list, and the truck waits, exactly
\* when no eligible package has a co-delivery closure that is eligible as a
\* whole and no larger than the capacity; if there is such a package the
\* batch is not empty and the truck does not wait
NonEmptyWhenGroupEligible ==
    \A t \in TruckIds :
        batches[t].computed =>
            IF \E p \in DOMAIN setup : Loadable(p, t)
            THEN batches[t].items # << >> /\ ~ trucks[t].waiting
            ELSE batches[t].items = << >> /\ trucks[t].waiting

\* a truck is given a batch that is one whole closure of more than one
\* package and fills the truck
ClosureFillsTruck ==
    \E t \in TruckIds : \E p \in DOMAIN setup :
        /\ batches[t].computed
        /\ Loadable(p, t)
        /\ Cardinality(Closure(p)) > 1
        /\ Cardinality(Closure(p)) = capacity
        /\ BatchOf(t) = Closure(p)
        /\ ~ trucks[t].waiting

\* truck t reaches a location other than the hub in this step
ArrivesAtStop(t) ==
    /\ pc = "loop" /\ Running /\ raised' = ""
    /\ ~ trucks[t].waiting
    /\ trucks[t].mile_tenths_to_destination = 1
    /\ trucks[t].destination # HubId

\* C15: a truck that reaches a location other than the hub delivers the
\* packages it carries for that location and no others: each is stamped
\* with the time of the clock, and as on time if and only if that time is
\* not after its deadline; the others stay on the truck in their order,
\* and the truck's destination is that of the first of them, or the hub
DeliversAtStop ==
    [][/\ \A t \in TruckIds :
            ArrivesAtStop(t) =>
              LET here == trucks[t].destination
                  rest == SelectSeq(trucks[t].packages,
                              LAMBDA p : packages'[p].delivery_location # here)
                  next == IF rest = << >> THEN HubId
                          ELSE packages'[rest[1]].delivery_location
              IN  /\ trucks'[t].location = here
                  /\ trucks'[t].packages = rest
                  /\ \A p \in Range(trucks[t].packages) \ Range(rest) :
                         packages'[p].status =
                             DeliveredAt(Now(clock'),
                               Now(clock') <= packages[p].deadline_time)
                  /\ \A p \in Range(rest) :
                         packages'[p].status.kind # "Delivered at"
                  /\ trucks'[t].destination = next
                  /\ trucks'[t].mile_tenths_to_destination
                         = DistanceTo(here, next)
       /\ \A p \in DOMAIN setup :
            packages'[p].status.kind = "Delivered at"
              /\ packages[p].status.kind # "Delivered at"
                => \E t \in TruckIds :
                     /\ ~ trucks[t].waiting
                     /\ trucks[t].mile_tenths_to_destination = 1
                     /\ p \in Carried(t)
                     /\ packages'[p].delivery_location = trucks[t].destination
      ]_vars

\* a truck has just delivered a package on time at a stop and goes on to
\* the stop of the first package it still carries
DeliveredSomeCarriesOn ==
    \E t \in TruckIds : \E p \in DOMAIN setup :
        /\ trucks[t].location # HubId
        /\ trucks[t].packages # << >>
        /\ IsDelivered(p)
        /\ packages[p].status.at = Now(clock)
        /\ packages[p].delivery_location = trucks[t].location
        /\ packages[p].status.on_time
        /\ trucks[t].destination
               = packages[trucks[t].packages[1]].delivery_location
        /\ trucks[t].mile_tenths_to_destination
               = DistanceTo(trucks[t].location, trucks[t].destination)

\* C16: after every sequence of add, remove and pop, with or without
\* doubling, len is the number of keys present, a key is contained and
\* get gives its last added value exactly while the reference map has it,
\* no key is stored twice, and pop gives the value the map had
BehavesAsMap ==
    /\ [](/\ hash_table.len = Cardinality(DOMAIN reference)
          /\ Len(Pairs(hash_table)) = Cardinality(DOMAIN reference)
          /\ \A key \in TableKeys :
                /\ Contains(hash_table, key) <=> key \in DOMAIN reference
                /\ Get(hash_table, key) =
                       IF key \in DOMAIN reference
                       THEN Returns(reference[key])
                       ELSE Raises("KeyError"))
    /\ [][returned'.op = "pop" =>
              returned'.result =
                  IF returned'.key \in DOMAIN reference
                  THEN Returns(reference[returned'.key])
                  ELSE Returns(None)]_vars

\* a table that has doubled holds two keys in one bucket after a third
\* key was popped
PoppedFromDoubledTable ==
    /\ Len(hash_table.array) = 8
    /\ returned.op = "pop" /\ returned.known
    /\ hash_table.array[1] = << << 8, "b" >>, << 0, "a" >> >>
    /\ reference = (0 :> "a") @@ (8 :> "b")

\* the table new holds the pairs of the table old, each once and each
\* found by get and by in, and counts as many
KeepsPairs(old, new) ==
    /\ Range(Pairs(new)) = Range(Pairs(old))
    /\ Len(Pairs(new)) = Len(Pairs(old))
    /\ new.len = old.len
    /\ \A i \in 1 .. Len(Pairs(old)) :
          /\ Contains(new, Pairs(old)[i][1])
          /\ Get(new, Pairs(old)[i][1]) = Returns(Pairs(old)[i][2])

\* the table that add(key, value) finds full and doubles
Full(key, value) == Store(hash_table, key, value)

\* C17: double, called on its own or by add on a table that is full,
\* leaves a table of twice as many buckets with the same pairs, each found
\* by get and by in, and the same len
DoubleDoublesBuckets ==
    [][/\ returned'.op = "double" =>
            /\ Len(hash_table'.array) = 2 * Len(hash_table.array)
            /\ KeepsPairs(hash_table, hash_table')
       /\ returned'.op = "add"
            /\ IsFull(Full(returned'.key, reference'[returned'.key])) =>
            /\ Len(hash_table'.array) = 2 * Len(hash_table.array)
            /\ KeepsPairs(Full(returned'.key, reference'[returned'.key]),
                          hash_table')
      ]_vars

\* C18: get of a key that is not in the table raises KeyError and leaves
\* the table as it was; remove of such a key leaves the table, its pairs
\* and its len as they were
AbsentKeyLeavesTable ==
    [][/\ returned'.op = "get" /\ ~ returned'.known =>
            /\ returned'.result = Raises("KeyError")
            /\ hash_table' = hash_table
       /\ returned'.op = "remove" /\ ~ returned'.known =>
            /\ returned'.result = Returns(None)
            /\ hash_table' = hash_table
            /\ Pairs(hash_table') = Pairs(hash_table)
            /\ hash_table'.len = hash_table.len
      ]_vars

\* get has raised KeyError for a key whose bucket holds another key
MissedInUsedBucket ==
    /\ returned.op = "get" /\ ~ returned.known
    /\ returned.result.raised = "KeyError"
    /\ hash_table.array[Hash(hash_table, returned.key)] # << >>

\* the locations of the last call that are not among the first n of the
\* path it gave
Unvisited(n) ==
    routed.locations \ { routed.path[j] : j \in 1 .. n }

\* the location the i-th of the path was chosen from
Previous(i) ==
    IF i = 1 THEN routed.starting_location ELSE routed.path[i - 1]

\* the order in which the iterator of the table of locations of the last
\* call yields them: bucket by bucket, and within a bucket as they were added
IterationOrder == Values(LocationTable(routed.added))

\* C19: shortest_path gives each of the locations once; each is, of those
\* not yet given, at the least distance from the one before it (from the
\* start for the first), and of several at that distance the first in the
\* iteration order of the table of locations
NearestNeighbourOrder ==
    routed.made =>
    /\ Len(routed.path) = Cardinality(routed.locations)
    /\ Range(routed.path) = routed.locations
    /\ \A i \in 1 .. Len(routed.path) :
         \A l \in Unvisited(i - 1) :
           /\ DistanceTo(Previous(i), routed.path[i])
                  <= DistanceTo(Previous(i), l)
           /\ DistanceTo(Previous(i), l)
                  = DistanceTo(Previous(i), routed.path[i])
                => PositionIn(IterationOrder, routed.path[i])
                     <= PositionIn(IterationOrder, l)

\* a path over three locations from a fourth, yielded by their table neither
\* in the order they were added nor in that of their ids, that starts with
\* the first of two equally near ones, which has the higher id, and then
\* goes on to a nearer one
TieGoesToFirst ==
    /\ routed.made
    /\ Len(routed.path) = 3
    /\ routed.starting_location \notin routed.locations
    /\ IterationOrder # routed.added
    /\ IterationOrder # Ascending(routed.locations)
    /\ \E l \in Unvisited(1) :
          /\ DistanceTo(routed.starting_location, l)
                = DistanceTo(routed.starting_location, routed.path[1])
          /\ l < routed.path[1]
    /\ \E l \in Unvisited(2) :
          DistanceTo(routed.path[1], routed.path[2])
              < DistanceTo(routed.path[1], l)

\* C20: time_after_increments leaves the clock as it is, and the time it
\* gives for n increments is the time now gives once advance_time has been
\* called n more times
ProjectionIsLaterNow ==
    /\ [](projected.made /\ clock = projected.at + projected.increments
            => Now(clock) = projected.time)
    /\ [][/\ projected' # projected => clock' = clock
          /\ clock' # clock => clock' = clock + 1 /\ projected' = projected
         ]_vars

\* the clock has been advanced past midnight to the time projected for it
\* before midnight
ProjectedPastMidnight ==
    /\ projected.made
    /\ projected.increments >= 2
    /\ clock = projected.at + projected.increments
    /\ Now(clock) < Now(projected.at)
    /\ Now(clock) = projected.time

\* the list b holds the packages of the list a, each as often
IsPermutation(a, b) ==
    /\ Len(a) = Len(b)
    /\ \A p \in Range(a) \cup Range(b) :
           Cardinality({ i \in 1 .. Len(a) : a[i] = p })
               = Cardinality({ i \in 1 .. Len(b) : b[i] = p })

\* the delivery locations of the packages at consecutive positions lo..hi of
\* a candidate list, each location once, in the order of its first package
RECURSIVE StopsOf(_, _, _)
StopsOf(c, lo, hi) ==
    IF lo > hi THEN << >>
    ELSE LET before == StopsOf(c, lo, hi - 1)
             location == packages[c[hi]].delivery_location
         IN  IF location \in Range(before) THEN before
             ELSE Append(before, location)

\* the packages at positions lo..hi of a candidate list stand location by
\* location
Clustered(c, lo, hi) ==
    \A i, j, k \in lo..hi :
        (i < j /\ j < k
           /\ packages[c[i]].delivery_location
                = packages[c[k]].delivery_location)
        => packages[c[j]].delivery_location = packages[c[i]].delivery_location

\* a list of stops is in a greedy order from a starting location: no later
\* stop of the list is nearer to the stop before than the stop that follows it
IsGreedyFrom(stops, start) ==
    \A i \in 1 .. Len(stops) : \A k \in i + 1 .. Len(stops) :
        LET last == IF i = 1 THEN start ELSE stops[i - 1]
        IN  DistanceTo(last, stops[i]) <= DistanceTo(last, stops[k])

RECURSIVE WayTo(_, _)
\* the tenths of a mile from the hub to the stop of the i-th package of a
\* list, by way of the stops of the packages before it
WayTo(g, i) ==
    IF i = 0 THEN 0
    ELSE WayTo(g, i - 1)
         + DistanceTo(IF i = 1 THEN HubId
                      ELSE packages[g[i - 1]].delivery_location,
                      packages[g[i]].delivery_location)

\* a truck that leaves the hub now and drives the list g, a tenth of a mile
\* a tick, is at the stop of one of its packages after the package is due
ProjectedLate(g) ==
    \E i \in 1 .. Len(g) :
        Now(clock + WayTo(g, i)) > packages[g[i]].deadline_time

\* g is the list given in the order of the Greedy Router from start: its
\* packages stand stop by stop, those of one stop as in the list given; no
\* later stop is nearer to the stop before (to start, for the first) than
\* the stop that follows it, and of two equally near the one that follows is
\* the one the table of the locations of the list given yields first
IsRouteOrder(g, given, start) ==
    LET stops == StopsOf(g, 1, Len(g))
        yielded == Values(PackageLocations(packages, given))
    IN  /\ IsPermutation(given, g)
        /\ Clustered(g, 1, Len(g))
        /\ \A i, j \in 1 .. Len(g) :
               (i < j /\ packages[g[i]].delivery_location
                           = packages[g[j]].delivery_location)
               => PositionIn(given, g[i]) < PositionIn(given, g[j])
        /\ IsGreedyFrom(stops, start)
        /\ \A i \in 1 .. Len(stops) : \A k \in i + 1 .. Len(stops) :
               LET last == IF i = 1 THEN start ELSE stops[i - 1]
               IN  DistanceTo(last, stops[i]) = DistanceTo(last, stops[k])
                   => PositionIn(yielded, stops[i])
                          < PositionIn(yielded, stops[k])

\* the orders of the Greedy Router from start of a list of distinct
\* packages: there is one
RouteOrders(given, start) ==
    { g \in Orders(Range(given)) : IsRouteOrder(g, given, start) }

\* the Greedy Router order from the hub of the list last given to
\* fix_late_deliveries has a package due after its deadline
ViolationFound ==
    \E g \in RouteOrders(repaired.given, HubId) : ProjectedLate(g)

\* the place in the given list of its last package with a deadline other
\* than the end of the day, 0 if it has none
LastWithDeadline ==
    LET strict == { i \in 1 .. Len(repaired.given) :
                      packages[repaired.given[i]].deadline # EOD }
    IN  IF strict = {} THEN 0 ELSE Max(strict)

\* the list returned is the given list up to place n, then the rest in the
\* order of the Greedy Router from the location of the package at place n
\* (from the hub for n = 0)
ReturnedPrefixThenGreedy(n) ==
    LET given == repaired.given
        result == repaired.returned
    IN  /\ Len(result) = Len(given)
        /\ SubSeq(result, 1, n) = SubSeq(given, 1, n)
        /\ SubSeq(result, n + 1, Len(result))
             \in RouteOrders(SubSeq(given, n + 1, Len(given)),
                             IF n = 0 THEN HubId
                             ELSE packages[given[n]].delivery_location)

\* C21 as stated: when the Greedy Router order from the hub has a package
\* due after its deadline, fix_late_deliveries returns the given list up to
\* its last package with a deadline other than the end of the day, then the
\* rest in the Greedy Router order from that package's location; otherwise
\* it returns the Greedy Router order from the hub
RepairKeepsPrefixToLastDeadline ==
    repaired.made =>
        /\ Cardinality(RouteOrders(repaired.given, HubId)) = 1
        /\ IF ViolationFound THEN ReturnedPrefixThenGreedy(LastWithDeadline)
           ELSE repaired.returned \in RouteOrders(repaired.given, HubId)

\* C21: when the Greedy Router order from the hub has a package due after
\* its deadline, fix_late_deliveries returns the given list up to its last
\* package with a deadline other than the end of the day, or its first
\* package alone if none has such a deadline, then the rest in the Greedy
\* Router order from the location of the last package kept; otherwise it
\* returns the Greedy Router order from the hub
RepairKeepsPrefixOrFirst ==
    repaired.made =>
        /\ Cardinality(RouteOrders(repaired.given, HubId)) = 1
        /\ IF ViolationFound
           THEN ReturnedPrefixThenGreedy(IF LastWithDeadline = 0 THEN 1
                                         ELSE LastWithDeadline)
           ELSE repaired.returned \in RouteOrders(repaired.given, HubId)

\* a violation was found in a list of three packages whose first is the
\* only one with a deadline, and the list returned is neither the given
\* one nor the Greedy Router order from the hub
RepairedBehindFirst ==
    /\ repaired.made /\ ViolationFound
    /\ Len(repaired.given) = 3 /\ LastWithDeadline = 1
    /\ repaired.returned # repaired.given
    /\ repaired.returned \notin RouteOrders(repaired.given, HubId)

\* C22: whenever add_packages_by_location has a group taken into a batch,
\* each package of the group is of the closure of a package that has, at
\* that time, the delivery location of a package already in the batch
PulledSharesLocation ==
    \A t \in TruckIds : \A r \in batches[t].pulled : \A p \in r.group :
        \E x \in DOMAIN setup :
            /\ p \in Closure(x)
            /\ \E q \in r.batch :
                   packages[q].delivery_location
                       = packages[x].delivery_location

\* the positions of a candidate list that hold the packages of one deadline
\* time
GroupAt(c, deadline_time) ==
    { i \in 1..Len(c) : packages[c[i]].deadline_time = deadline_time }

\* the deadline group at positions g of a candidate list is in the greedy
\* order from the hub, or from the location of the package before it
GroupInGreedyOrder(c, g) ==
    LET lo == CHOOSE i \in g : \A j \in g : i <= j
        hi == CHOOSE i \in g : \A j \in g : j <= i
        start == IF lo = 1 THEN HubId
                 ELSE packages[c[lo - 1]].delivery_location
    IN  /\ g = lo..hi
        /\ Clustered(c, lo, hi)
        /\ IsGreedyFrom(StopsOf(c, lo, hi), start)

LiveEligible(t) ==
    { p \in DOMAIN packages :
        /\ ~ packages[p].truck2_only \/ t = Truck2
        /\ \/ /\ p \in hub'.remaining_packages
              /\ p \notin hub'.undeliverable_packages
              /\ p \notin hub'.delayed_packages
           \/ \E u \in TruckIds : u >= t /\ p \in Range(batches'[u].items) }

\* C24: a truck waits after a call of Hub.arrive exactly when the batch was
\* empty; a waiting truck is at the hub, carries nothing and has no
\* distance left; in every tick it asks for a batch, computed from the
\* indices of that tick, and its mileage stays; it stops waiting in the tick
\* in which the batch is not empty
WaitingTruckPolls ==
    /\ [](\A t \in TruckIds :
            trucks[t].waiting =>
                /\ trucks[t].location = HubId
                /\ trucks[t].packages = << >>
                /\ trucks[t].mile_tenths_to_destination = 0)
    /\ [][raised' = "" =>
            \A t \in TruckIds :
                /\ batches'[t].computed =>
                       (trucks'[t].waiting <=> batches'[t].items = << >>)
                /\ ~ batches'[t].computed =>
                       trucks'[t].waiting = trucks[t].waiting
                /\ (pc = "loop" /\ Running /\ trucks[t].waiting) =>
                       /\ batches'[t].computed
                       /\ batches'[t].eligible = LiveEligible(t)
                       /\ trucks'[t].mile_tenths_driven
                            = trucks[t].mile_tenths_driven]_vars

\* a truck that has not driven yet leaves the hub at 9:05 with a package
\* that was delayed: it has waited since 8:00
LeavesWaitingAtNineOhFive ==
    \E t \in TruckIds :
        /\ clock = TimeOf(9, 5)
        /\ batches[t].computed
        /\ ~ trucks[t].waiting
        /\ trucks[t].mile_tenths_driven = 0
        /\ \E p \in Range(trucks[t].packages) :
               setup[p].status = Delayed

RECURSIVE SumOver(_, _)
\* the sum of f[x] over the elements x of a finite set
SumOver(f, set) ==
    IF set = {} THEN 0
    ELSE LET x == CHOOSE x \in set : TRUE
         IN  f[x] + SumOver(f, set \ {x})

\* the number of packages indexed at the delivery location of each package
IndexedWith ==
    [p \in DOMAIN packages |->
       IF packages[p].delivery_location \in DOMAIN hub.packages_by_location
       THEN Len(hub.packages_by_location[packages[p].delivery_location])
       ELSE 0]

\* the number of packages each package is indexed to be delivered with
ListedWith == [p \in DOMAIN packages |-> Len(hub.deliver_with[p])]

\* C25: the work of a call of next_batch is bounded, on cyclic deliver-with
\* lists too: a call of group_packages from add_grouped_packages adds a
\* package to the group at most once and calls itself once for each entry
\* in the lists of the packages it added at most; add_grouped_packages is
\* called once for each candidate at most and once for each package indexed
\* at the location of a package it accepted, and no package is accepted
\* twice
GroupingIsBounded ==
    \A t \in TruckIds :
        /\ \A g \in batches[t].grouped :
               /\ NoDuplicates(g.visits)
               /\ g.calls <= 1 + SumOver(ListedWith, Range(g.visits))
        /\ batches[t].computed =>
               /\ NoDuplicates(batches[t].selected)
               /\ batches[t].group_calls
                    <= Len(batches[t].candidates)
                         + SumOver(IndexedWith, Range(batches[t].selected))

\* a batch for which group_packages met a package it had added already, and
\* a package was pulled in from the location of another
CycleMetAndPulledIn ==
    \E t \in TruckIds :
        /\ batches[t].computed
        /\ batches[t].pulled # {}
        /\ \E g \in batches[t].grouped :
               /\ Len(g.visits) >= 2
               /\ g.calls > Len(g.visits)
               /\ Range(g.visits) \subseteq Range(batches[t].selected)

\* C26: a table made with HashTable() never holds more pairs than three
\* quarters of its buckets after a call; add leaves the number of buckets
\* or doubles it, once, and remove and pop leave it
DefaultTableKeepsLoad ==
    /\ [](/\ 4 * Cardinality(DOMAIN reference) <= 3 * Len(hash_table.array)
          /\ 4 * Len(Pairs(hash_table)) <= 3 * Len(hash_table.array)
          /\ 4 * hash_table.len <= 3 * Len(hash_table.array))
    /\ [][/\ returned'.op = "add" =>
               Len(hash_table'.array)
                   \in { Len(hash_table.array), 2 * Len(hash_table.array) }
          /\ returned'.op \in {"remove", "pop"} =>
               Len(hash_table'.array) = Len(hash_table.array)
          /\ Len(hash_table'.array) >= Len(hash_table.array)]_vars

\* a table that has doubled twice and has been emptied to fewer pairs than
\* its first 16 buckets took
DoubledTwiceThenEmptied ==
    /\ Len(hash_table.array) = 64
    /\ returned.op \in {"remove", "pop"} /\ returned.known
    /\ hash_table.len <= 12

\* the trucks that carry package p, and how often truck t carries it
Carriers(p) == { t \in TruckIds : p \in Carried(t) }
TimesCarried(p, t) ==
    Cardinality({ i \in 1 .. Len(trucks[t].packages) :
                    trucks[t].packages[i] = p })

\* package p is at the hub and not yet loaded
NotYetLoaded(p) ==
    /\ p \in hub.remaining_packages
    /\ packages[p].status \in {AtHub, Delayed, Undeliverable}
    /\ Carriers(p) = {}

\* package p is carried by one truck, once, and its status names the truck
CarriedByOne(p) ==
    /\ p \notin hub.remaining_packages
    /\ \E t \in TruckIds :
          /\ Carriers(p) = {t}
          /\ TimesCarried(p, t) = 1
          /\ packages[p].status = OnTruck(t)

\* package p is delivered
DeliveredOff(p) ==
    /\ p \notin hub.remaining_packages
    /\ IsDelivered(p)
    /\ Carriers(p) = {}

\* C27: once the packages are indexed, and while no exception has ended the
\* run, every package is not yet loaded, or carried by exactly one truck,
\* or delivered; the packages accepted into a batch are the packages the
\* truck is given, which are on the truck after the call; and a delivered
\* status never changes
ItemsConserved ==
    /\ [](pc # "sort_packages" /\ raised = "" =>
            /\ \A p \in DOMAIN packages :
                   NotYetLoaded(p) \/ CarriedByOne(p) \/ DeliveredOff(p)
            /\ \A t \in TruckIds :
                   batches[t].computed =>
                       /\ Range(batches[t].selected) = BatchOf(t)
                       /\ Len(batches[t].selected) = Len(batches[t].items)
                       /\ BatchOf(t) \subseteq Carried(t))
    /\ [][\A p \in DOMAIN packages :
              IsDelivered(p) => packages'[p].status = packages[p].status]_vars

\* the trucks that run calls Hub.arrive for before the loop
Dispatched == {1, 2}

\* C28: next_batch is called for trucks 1 and 2 only; a truck that run does
\* not dispatch stays as it was created, at the hub, not waiting, without
\* destination, packages or mileage, and no package has its status
IdleTruckStaysIdle ==
    \A t \in TruckIds \ Dispatched :
        /\ batches[t] = NoBatch
        /\ trucks[t].packages = << >>
        /\ trucks[t].mile_tenths_driven = 0
        /\ trucks[t].mile_tenths_to_destination = 0
        /\ trucks[t].location = HubId
        /\ trucks[t].destination = NoLocation
        /\ ~ trucks[t].waiting
        /\ \A p \in DOMAIN packages : packages[p].status # OnTruck(t)

\* a tick has passed and left at the hub a package that is eligible for
\* truck 3, while trucks 1 and 2 are on the road
EligibleLeftForIdleTruck ==
    /\ pc = "loop" /\ clock > StartTime /\ raised = ""
    /\ \E p \in DOMAIN packages : IsEligiblePackage(World, p, 3)
    /\ \A t \in Dispatched : trucks[t].mile_tenths_to_destination > 0

\* distinct locations are a tenth of a mile apart or more, and no package
\* is for the hub, before or after the address correction
StopsApart ==
    /\ \A a, b \in 0 .. Len(distances) - 1 : a # b => DistanceTo(a, b) >= 1
    /\ \A p \in DOMAIN setup : setup[p].delivery_location # HubId
    /\ addr410 # HubId

\* truck t is bound for the location of the first package it carries
OnCourse(t) ==
    trucks[t].destination
        = packages[trucks[t].packages[1]].delivery_location

\* C29: with stops apart and no package for the hub, a package that is on a
\* truck is delivered later on, unless the clock reaches the cutoff first
LoadedIsDelivered ==
    \A p \in {1, CorrectedPackage} : \A t \in TruckIds :
        (StopsApart /\ p \in Carried(t))
            ~> \/ p \in DOMAIN packages /\ IsDelivered(p)
               \/ Now(clock) >= stop_at

\* a package is on a truck bound for its stop when the run is ended by the
\* KeyError of check_events, hours before the cutoff
LoadedWhenRaised ==
    \E p \in DOMAIN packages : \E t \in TruckIds :
        /\ StopsApart
        /\ pc = "raised" /\ raised = "KeyError"
        /\ Now(clock) = AddressCorrection /\ Now(clock) < stop_at
        /\ p \in Carried(t) /\ ~ IsDelivered(p)
        /\ trucks[t].mile_tenths_to_destination > 0

\* what holds of the runs of one package: a package that is on a truck is
\* delivered later on, unless the clock reaches the cutoff or the run is
\* ended by an exception first
LoadedIsDeliveredUnlessRaised ==
    \A p \in {1, CorrectedPackage} : \A t \in TruckIds :
        (StopsApart /\ p \in Carried(t))
            ~> \/ p \in DOMAIN packages /\ IsDelivered(p)
               \/ Now(clock) >= stop_at
               \/ pc = "raised"

\* the steps of a truck that carries packages, with stops apart and no
\* package for the hub: it is on the road and the loop goes on until the
\* cutoff; each tick
\* brings it a tenth of a mile nearer to its destination; when it arrives
\* where its first package is to go it delivers one package or more, and
\* whenever it arrives and keeps packages it is bound for the first of them
\* again; it stays bound for it unless the address is corrected
CarryingTruckGetsOn ==
    /\ [](StopsApart /\ pc \in {"arrive_2", "loop"} /\ raised = "" =>
            \A t \in TruckIds :
                trucks[t].packages # << >> =>
                    /\ trucks[t].mile_tenths_to_destination > 0
                    /\ ~ trucks[t].waiting
                    /\ pc = "loop" /\ Now(clock) < stop_at => Running)
    /\ [][StopsApart /\ pc = "loop" /\ Running /\ raised' = "" =>
            \A t \in TruckIds :
                trucks[t].packages # << >> =>
                    IF trucks[t].mile_tenths_to_destination > 1
                    THEN /\ trucks'[t].mile_tenths_to_destination
                              = trucks[t].mile_tenths_to_destination - 1
                         /\ trucks'[t].packages = trucks[t].packages
                         /\ trucks'[t].destination = trucks[t].destination
                         /\ OnCourse(t) /\ events'.corrected = {}
                              => OnCourse(t)'
                    ELSE /\ trucks'[t].location = trucks[t].destination
                         /\ Carried(t)' \subseteq Carried(t)
                         /\ trucks[t].destination
                              = packages'[trucks[t].packages[1]]
                                    .delivery_location
                              => /\ Len(trucks'[t].packages)
                                      < Len(trucks[t].packages)
                                 /\ packages'[trucks[t].packages[1]].status
                                      = DeliveredAt(
                                            Now(clock'),
                                            packages'[trucks[t].packages[1]]
                                                .status.on_time)
                         /\ trucks'[t].packages # << >> => OnCourse(t)'
       ]_vars

\* a truck has come to the old address of package 9 after the correction,
\* has delivered nothing there and is bound for the corrected address
ArrivedAtOldAddress ==
    \E t \in TruckIds :
        /\ StopsApart /\ raised = "" /\ events.corrections = 1
        /\ CorrectedPackage \in Carried(t)
        /\ trucks[t].location = setup[CorrectedPackage].delivery_location
        /\ trucks[t].location # addr410
        /\ trucks[t].destination = addr410
        /\ trucks[t].mile_tenths_to_destination
             = DistanceTo(trucks[t].location, addr410)

\* C30: the list fix_late_deliveries returns is a permutation of the list
\* it is given, whether a late delivery is found or not
RepairPermutes ==
    repaired.made => IsPermutation(repaired.given, repaired.returned)

\* in a run, the list next_batch hands to a truck is a permutation of the
\* packages accepted for it
BatchPermutesAccepted ==
    \A t \in TruckIds :
        batches[t].computed =>
            IsPermutation(batches[t].selected, batches[t].items)

\* a late delivery was found for three packages of which two go to one
\* stop, and the list returned is in another order than the list given
RepairedThreeForTwoStops ==
    /\ repaired.made /\ ViolationFound
    /\ Len(repaired.given) = 3
    /\ Cardinality({ packages[p].delivery_location :
                       p \in Range(repaired.given) }) = 2
    /\ repaired.returned # repaired.given

=============================================================================
